---- MODULE Spec2Model ----
(***************************************************************************)
(* Model of the trading core of crypto-agent: the exchange-filter          *)
(* quantization and sizing functions of agent/app/mexc.py and the          *)
(* position state machine driven by trader_tick in agent/app/trader.py.    *)
(*                                                                         *)
(* Numbers.  Prices, quantities and notionals are exact decimals in the    *)
(* code (decimal.Decimal, 28 digits) and are whole numbers of a smallest   *)
(* unit here.  An absent value (Python None) is the empty sequence <<>>    *)
(* and a present value v is <<v>>.  A filter field that the exchange did   *)
(* not report is 0: the code reads every filter as `f.get(k) or            *)
(* Decimal("0")`, so None and 0 take the same branches.                    *)
(***************************************************************************)
EXTENDS Integers, Sequences, FiniteSets, TLC

VARIABLES
    call,         \* the quantization/sizing call under test: inputs and result
    testOnly,     \* trader.TEST_ONLY  (TRADE_TEST_ONLY, simulation mode)
    enabled,      \* trader.TRADE_ENABLED
    filterCache,  \* mexc._SYMBOL_FILTERS: symbol -> cached filters, or none yet
    exch,         \* the exchange's record of each symbol's resting buy order
    sellFilled,   \* the symbols whose resting take-profit sell the exchange has filled
    db,           \* committed rows of table positions: symbol -> row, or no row
    orders,       \* committed rows of table mexc_orders: per symbol, in insertion order
    pc,           \* per tick execution: where in trader_tick it is
    idx,          \* per tick execution: index into symbols of the symbol in hand
    sess,         \* per tick execution: the Position objects of its session
    pending,      \* per tick execution: rows added to the session, not yet committed
    cur,          \* per tick execution: values read for the symbol in hand
    out,          \* what the last step did: requests sent, events broadcast
    ticks         \* number of trader_tick executions started so far

vars == <<call, testOnly, enabled, filterCache, exch, sellFilled, db, orders,
          pc, idx, sess, pending, cur, out, ticks>>

traderVars == <<testOnly, enabled, filterCache, exch, sellFilled, db, orders,
                pc, idx, sess, pending, cur, out, ticks>>

-----------------------------------------------------------------------------
(* Optional values *)

None == <<>>

Some(v) == <<v>>

\* Python's `x or 0` on an optional number.
OrZero(o) == IF o = None THEN 0 ELSE o[1]

-----------------------------------------------------------------------------
(* mexc.py: quantization and sizing *)

\* The filters of one symbol as _parse_symbol_filters returns them.
Filters(tick, step, minq, minn) ==
    [tickSize |-> tick, stepSize |-> step, minQty |-> minq, minNotional |-> minn]

\* _quantize_down taking the multiple strictly below x (the slip of an
\* off-by-one in the floor).
QuantizeBelow(x, step) == IF step = 0 THEN x ELSE ((x - 1) \div step) * step

\* _quantize_down: the largest multiple of step at or below x; x itself
\* when there is no step.
QuantizeDown(x, step) == IF step = 0 THEN x ELSE (x \div step) * step

\* _quantize_up rounding down (the slip of writing ROUND_DOWN at line 191).
QuantizeUpRoundsDown(x, step) == QuantizeDown(x, step)

\* _quantize_up: the smallest multiple of step at or above x.
QuantizeUp(x, step) == IF step = 0 THEN x ELSE ((x + step - 1) \div step) * step

\* Decimal division a / b carried as its floor.  Flooring the exact quotient
\* to a multiple of a whole step gives the same multiple as flooring its
\* floor; where no step follows, the inputs drawn divide exactly.
DivDown(a, b) == a \div b

\* Decimal division a / b carried as its ceiling (same remark, for
\* _quantize_up).
DivUp(a, b) == (a + b - 1) \div b

\* round_price rounding up (the slip of calling _quantize_up).
RoundPriceUp(f, price) == QuantizeUp(price, f.tickSize)

\* round_price.  The float it returns and the Decimal(str(...)) a later call
\* makes of it give the quantized Decimal back for values of up to 15
\* significant digits, so the conversions change nothing here.
RoundPrice(f, price) == QuantizeDown(price, f.tickSize)

\* round_qty without the raise to min_qty (the slip of dropping lines
\* 202-204).
RoundQtyNoMin(f, qty) == QuantizeDown(qty, f.stepSize)

\* round_qty
RoundQty(f, qty) ==
    LET q == QuantizeDown(qty, f.stepSize)
    IN  IF f.minQty # 0 /\ q < f.minQty THEN f.minQty ELSE q

\* size_order returning the least quantity that clears min_notional whenever
\* the budget affords it (the slip of taking the recomputation branch
\* always).
SizeOrderLeast(f, price, budget) ==
    IF price <= 0 \/ budget <= 0 THEN 0
    ELSE LET need == QuantizeUp(DivUp(f.minNotional, price), f.stepSize)
         IN  IF need * price > budget THEN 0 ELSE need

\* size_order
SizeOrder(f, price, budget) ==
    IF price <= 0 \/ budget <= 0 THEN 0
    ELSE LET raw  == DivDown(budget, price)
             q0   == QuantizeDown(raw, f.stepSize)
             q    == IF f.minQty # 0 /\ q0 < f.minQty THEN f.minQty ELSE q0
             need == QuantizeUp(DivUp(f.minNotional, price), f.stepSize)
         IN  IF f.minNotional # 0 /\ q * price < f.minNotional
             THEN IF need * price > budget THEN 0 ELSE need
             ELSE IF q > 0 THEN q ELSE 0

-----------------------------------------------------------------------------
(* trader.py: configuration *)

\* TP_PCT, in basis points (0.02).
TP_BPS == 200

\* SL_PCT, in basis points (0 disables the stop price).
SL_BPS == 0

\* MAKER_FRAC and TAKER_FRAC, in basis points (the defaults of lines 18-19).
MAKER_BPS == 0

TAKER_BPS == 5

\* The divisor that turns basis points into a fraction.
BPS == 10000

\* MAX_USDT (MAX_USDT_PER_TRADE of the environment), set to 10 notional units.
MAX_USDT == 10

\* VOL_RATIO_MIN
VOL_RATIO_MIN == 40

\* _tp_price, carried as its floor (round_price floors it to a whole tick).
TpPrice(buy_price) ==
    DivDown(buy_price * (BPS + MAKER_BPS) * (BPS + TP_BPS), (BPS - TAKER_BPS) * BPS)

-----------------------------------------------------------------------------
(* The world the trader runs in *)

\* _symbols_from_env(): the configured universe, in list order.
Symbols == <<"S1", "S2">>

SymSet == {Symbols[i] : i \in 1..Len(Symbols)}

\* The executions of trader_tick that can be in flight: the one trader_loop
\* awaits, and the one a POST /trader/run-now request awaits.
Ticks == {"loop", "now"}

\* trader_loop calls trader_tick(symbols) and leaves broadcast at its
\* default None; trader_run_now passes its broadcast function.
HasBroadcast(t) == t = "now"

\* The filters the exchange reports for each symbol: S1 with tick 2, step 2
\* and the minimum quantity of one step that the precision fallback derives
\* (131-133); S2 with a filter list that sets the minimum quantity apart.
ExchangeFilters(sym) ==
    IF sym = "S1" THEN Filters(2, 2, 2, 5) ELSE Filters(1, 1, 3, 12)

\* Last close prices klines can return.
Closes == {3}

\* Free base-asset balances account_info can report.
BaseFree == {0, 1, 3}

\* Free quote-asset balances account_info can report.
QuoteFree == {0, 20}

\* What recs.get_latest() holds for a symbol: no entry, or a recommendation
\* with its atr_ratio (absent when ta_summary could not compute it).  The
\* ratio is read only under a BUY or ACCUMULATE (142-144), so the other
\* recommendations are drawn with one ratio.
NoRec == [recommendation |-> "HOLD", atr_ratio |-> None, present |-> FALSE]

RecEntries ==
    {NoRec} \cup
    [recommendation : {"BUY", "ACCUMULATE"},
     atr_ratio : {None, Some(30), Some(40)},
     present : {TRUE}] \cup
    [recommendation : {"HOLD", "AVOID/SELL"},
     atr_ratio : {Some(40)},
     present : {TRUE}]

\* What the recomputation of lines 146-152 yields: a ratio, or nothing when
\* klines fails or the ATR is not positive.
AtrRecomputed == {None, Some(30), Some(40)}

\* exchange_info for one symbol: no entry, or its status and spot flag.
ExInfos ==
    {[listed |-> FALSE, status |-> "0", spot |-> FALSE],
     [listed |-> TRUE, status |-> "1", spot |-> TRUE],
     [listed |-> TRUE, status |-> "1", spot |-> FALSE],
     [listed |-> TRUE, status |-> "2", spot |-> TRUE]}

\* What the exchange reports of a filled order: executedQty and
\* cummulativeQuoteQty, each possibly missing from the response.
FillReports ==
    {[executedQty |-> None,    cummulativeQuoteQty |-> None],
     [executedQty |-> Some(4), cummulativeQuoteQty |-> Some(13)],
     [executedQty |-> None,    cummulativeQuoteQty |-> Some(13)]}

NoReport == [executedQty |-> None, cummulativeQuoteQty |-> None]

\* What query_order answers for an order: its status and fill report.
ExchOrder(st, rep) == [status |-> st, report |-> rep]

\* The exchange's record of a buy order that is still working: the next
\* poll can find it in any status.
OpenOrder == ExchOrder("OPEN", NoReport)

\* The answers a poll can get.  FILLED, CANCELED and REJECTED are final:
\* once a poll has seen one of them every later poll of that order sees it
\* again.  A working order answers NEW or PARTIALLY_FILLED, or has just
\* reached a final status.
PollAnswers(known) ==
    IF known # OpenOrder THEN {known}
    ELSE {ExchOrder(st, NoReport) :
            st \in {"NEW", "PARTIALLY_FILLED", "CANCELED", "REJECTED"}}
         \cup {ExchOrder("FILLED", rep) : rep \in FillReports}

\* What the exchange is known to hold after a poll got answer `ans`.
Final(ans) == ans.status \in {"FILLED", "CANCELED", "REJECTED"}

-----------------------------------------------------------------------------
(* db.py: rows *)

\* Position (db.py 30-40)
Row(st, q, avg, tgt, stop, lb, ls) ==
    [state |-> st, qty |-> q, avg_price |-> avg, target_price |-> tgt,
     stop_price |-> stop, last_buy_order |-> lb, last_sell_order |-> ls]

\* No row stored for the symbol.
NoRow == Row("norow", 0, None, None, None, None, None)

\* Position(symbol=sym, qty=0.0, state="flat")
FlatRow == Row("flat", 0, None, None, None, None, None)

\* The order id of the resting buy order of a row stored in opening.
OpenBuyId == 0

\* A row as lines 196-199 store it.
OpeningRow == Row("opening", 0, Some(2), None, None, Some(OpenBuyId), None)

\* MexcOrder (db.py 14-28)
OrderRow(sym, side, price, qty, st, isTest, oid, err) ==
    [symbol |-> sym, side |-> side, type |-> "LIMIT", price |-> price,
     qty |-> qty, status |-> st, is_test |-> isTest, mexc_order_id |-> oid,
     error |-> err]

\* A session commit of one Position object: the UPDATE carries the columns
\* whose value differs from what the session last loaded or stored.
Flush(stored, loaded, now) ==
    [c \in DOMAIN now |-> IF now[c] # loaded[c] THEN now[c] ELSE stored[c]]

-----------------------------------------------------------------------------
(* What a step leaves behind for observation *)

\* An event handed to broadcast("recs", {...}).
Event(type, sym) == [type |-> type, symbol |-> sym]

\* A signed request sent to the exchange and how it ended: "ok", "exch_err"
\* (HTTP status other than 200: MexcTradeError) or "net_err" (the httpx
\* call itself raised: timeout, connection failure).
Request(op, side, qty, price, test, result) ==
    [op |-> op, side |-> side, qty |-> qty, price |-> price, test |-> test,
     result |-> result]

\* The inputs a step read: tradability, polled status, recommendation, the
\* atr_ratio the gate used, the quantity size_order returned, the free quote
\* balance, the close and the free base balance. "-" and None where the
\* step did not read one.
Inputs(tradable, poll, rec, atr, sized, qfree, price, bf) ==
    [tradable |-> tradable, poll |-> poll, rec |-> rec, atr |-> atr,
     sized |-> sized, qfree |-> qfree, price |-> price, bf |-> bf]

NoInputs == Inputs("-", "-", "-", None, None, None, None, None)

Out(by, step, sym, inp, req, ev, exc) ==
    [by |-> by, step |-> step, sym |-> sym, inp |-> inp, req |-> req,
     ev |-> ev, exc |-> exc]

Quiet(by, step) == Out(by, step, "-", NoInputs, <<>>, <<>>, "-")

\* `if broadcast: await broadcast(...)`
Emit(t, e) == IF HasBroadcast(t) THEN <<e>> ELSE <<>>

-----------------------------------------------------------------------------
(* trader_tick, one symbol: what each block computes *)

\* _is_tradable (33-45): ok of the (ok, meta) pair.
IsTradable(info) == info.listed /\ info.status = "1" /\ info.spot

\* 109 without its test of the mode (the slip of dropping `not TEST_ONLY`).
ReconcileGuardAnyMode(pos) ==
    pos.state = "opening" /\ pos.last_buy_order # None

\* 109: the guard of the reconciliation block.
ReconcileGuard(pos) ==
    ~testOnly /\ pos.state = "opening" /\ pos.last_buy_order # None

\* 116-125 with the transition to long left out (the slip of dropping
\* line 125).
FillRowNoState(pos, f, rep, bf, price) ==
    LET qty == IF rep.executedQty # None THEN rep.executedQty[1] ELSE bf
    IN  [pos EXCEPT !.qty = RoundQty(f, qty)]

\* 116-125 with the observed price stored as it is (the slip of dropping
\* round_price at line 124).
FillRowRawPrice(pos, f, rep, bf, price) ==
    LET qty == IF rep.executedQty # None THEN rep.executedQty[1] ELSE bf
        cq  == rep.cummulativeQuoteQty
    IN  [pos EXCEPT
            !.qty = RoundQty(f, qty),
            !.avg_price = IF cq # None /\ qty > 0
                          THEN Some(RoundPrice(f, DivDown(cq[1], qty)))
                          ELSE Some(price),
            !.state = "long"]

\* 116-125: the row after a FILLED poll.
FillRow(pos, f, rep, bf, price) ==
    LET qty == IF rep.executedQty # None THEN rep.executedQty[1] ELSE bf
        cq  == rep.cummulativeQuoteQty
    IN  [pos EXCEPT
            !.qty = RoundQty(f, qty),
            !.avg_price = IF cq # None /\ qty > 0
                          THEN Some(RoundPrice(f, DivDown(cq[1], qty)))
                          ELSE Some(RoundPrice(f, price)),
            !.state = "long"]

\* 129 with NEW taken for a cancellation (the slip of a status too many in
\* the tuple).
IsCancelledOrNew(st) == st \in {"CANCELED", "REJECTED", "NEW"}

\* 129: the polled status is a cancellation.
IsCancelled(st) == st \in {"CANCELED", "REJECTED"}

\* 131-132 with the order reference kept (the slip of dropping line 132).
CancelRowKeepsOrder(pos) == [pos EXCEPT !.state = "flat"]

\* 131-132 with the state kept (the slip of dropping line 131).
CancelRowKeepsState(pos) == [pos EXCEPT !.last_buy_order = None]

\* 131-132: the row after a CANCELED or REJECTED poll.
CancelRow(pos) == [pos EXCEPT !.state = "flat", !.last_buy_order = None]

\* 142 without the test of the recommendation (the slip of entering on any
\* recommendation).
EntryGuardAnyRec(pos, rec) == pos.state = "flat"

\* 142: the guard of the entry block.
EntryGuard(pos, rec) ==
    pos.state = "flat" /\ rec.recommendation \in {"BUY", "ACCUMULATE"}

\* 144-152: the atr_ratio the gate looks at.
GateRatio(rec, recomputed) ==
    IF rec.atr_ratio = None THEN recomputed ELSE rec.atr_ratio

\* 153: the gate blocks the entry.
GateBlocked(atr) == atr # None /\ atr[1] < VOL_RATIO_MIN

\* 188-193: the row after an accepted BUY in simulation mode.
TestBuyRow(pos, f, qty, price_r) ==
    [pos EXCEPT
        !.qty = qty,
        !.avg_price = Some(price_r),
        !.state = "long",
        !.target_price = Some(RoundPrice(f, TpPrice(price_r))),
        !.stop_price = IF SL_BPS > 0
                       THEN Some(RoundPrice(f, DivDown(price_r * (BPS - SL_BPS), BPS)))
                       ELSE None]

\* 196-199: the row after an accepted BUY in live mode.
LiveBuyRow(pos, price_r, oid) ==
    [pos EXCEPT
        !.avg_price = Some(price_r),
        !.qty = 0,
        !.state = "opening",
        !.last_buy_order = oid]

\* 213 with closing taken for a holding (the slip of writing
\* `pos.state in ("long", "closing")`).
ExitGuardWhileClosing(pos) ==
    pos.state \in {"long", "closing"} /\ pos.qty > 0 /\ OrZero(pos.avg_price) > 0

\* 213: the guard of the exit block.
ExitGuard(pos) ==
    pos.state = "long" /\ pos.qty > 0 /\ OrZero(pos.avg_price) > 0

\* 217-226: the quantity to sell; 0 stands for the two `continue`s that
\* place nothing.
SellQty(pos, f, bf) ==
    IF testOnly THEN pos.qty
    ELSE IF bf <= 0 THEN 0
    ELSE IF pos.qty > bf THEN RoundQty(f, bf)
    ELSE pos.qty

\* 238-239 with the order reference left out (the slip of dropping line
\* 239).
SellRowNoOrderRef(pos, oid) == [pos EXCEPT !.state = "closing"]

\* 238-239: the row after an accepted SELL.
SellRow(pos, oid) == [pos EXCEPT !.state = "closing", !.last_sell_order = oid]

\* resp.get("orderId"): the test endpoint answers with an empty body, the
\* live endpoint names the order it created.
OrderId(n) == IF testOnly THEN None ELSE Some(n)

\* 204-206 with the status of an accepted order (the slip of copying the
\* status of line 184).
RejectedOrderAsNew(sym, side, price, qty) ==
    OrderRow(sym, side, price, qty, "NEW", testOnly, None, TRUE)

\* 204-206 and 244-246: the record of a placement the exchange rejected.
RejectedOrder(sym, side, price, qty) ==
    OrderRow(sym, side, price, qty, "REJECTED", testOnly, None, TRUE)

-----------------------------------------------------------------------------
(* trader_tick, one symbol: the steps *)

\* What one block of the loop body did: the Position object as the session
\* now holds it, whether the block reached `await s.commit()`, the order
\* rows it added, how the block was left ("go" on to the next block,
\* "continue" with the next symbol, "raise" out of trader_tick), and the
\* symbol's filters as cached afterwards.
Res(row, commit, ords, next, inp, req, ev, exc, cache) ==
    [row |-> row, commit |-> commit, ords |-> ords, next |-> next, inp |-> inp,
     req |-> req, ev |-> ev, exc |-> exc, cache |-> cache]

\* symbol_filters (141-152): the cached filters, or on the first call what
\* exchange_info yields: filters, or nothing when the request fails.
FetchOutcomes(sym) ==
    IF filterCache[sym] # None THEN {filterCache[sym]}
    ELSE {None, Some(ExchangeFilters(sym))}

\* How a signed request can end.
NetOutcomes == {"ok", "exch_err", "net_err"}

\* The close (closes[sym], 100) and the free base balance (base_free[sym])
\* of the symbol in hand.  Both are fetched at the top of the tick and not
\* altered by it; each is drawn when the tick first reads its value and
\* kept from then on, None standing for "not read yet".
NoCur == [price |-> None, bf |-> None]

\* The values a first read can find, or the value already read.
ReadClose(t) == IF cur[t].price = None THEN Closes ELSE {cur[t].price[1]}

ReadBaseFree(t) == IF cur[t].bf = None THEN BaseFree ELSE {cur[t].bf[1]}

\* The blocks with the symbol left after its entry block (the slip of a
\* `continue` at the end of the entry block).
NextBlockNoExitAfterEntry(row, after) ==
    IF after = "tradable" /\ ReconcileGuard(row) THEN "reconcile"
    ELSE IF after \in {"tradable", "reconcile"} /\ row.state = "flat" THEN "entry"
    ELSE IF after \notin {"entry", "exit"} /\ ExitGuard(row) THEN "exit"
    ELSE "next"

\* The block of the loop body that acts next on a Position object, after
\* the block `after`: the blocks whose guard (109, 142 on the state, 213)
\* the object fails are passed over, and "next" is the end of the loop body.
NextBlock(row, after) ==
    IF after = "tradable" /\ ReconcileGuard(row) THEN "reconcile"
    ELSE IF after \in {"tradable", "reconcile"} /\ row.state = "flat" THEN "entry"
    ELSE IF after # "exit" /\ ExitGuard(row) THEN "exit"
    ELSE "next"

\* Where trader_tick stands after a step on symbol number i: in a block of
\* the loop body, at the next symbol, past the last symbol, or left by an
\* exception.
PcAfter(target, i) ==
    IF target = "raise" THEN "raised"
    ELSE IF target # "next" THEN target
    ELSE IF i < Len(Symbols) THEN "tradable"
    ELSE "returned"

IdxAfter(target, i) ==
    IF target = "next" /\ i < Len(Symbols) THEN i + 1 ELSE i

\* The effect of a block on the session, the tables, the cache and the
\* position in trader_tick.  `c` is what the tick has read of the symbol's
\* close and balance.  A Position object the tick is done with, and what
\* it read for that symbol, are dropped.
Apply(t, step, sym, r, c) ==
    LET target == IF r.next = "raise" THEN "raise"
                  ELSE IF r.next = "continue" THEN "next"
                  ELSE NextBlock(r.row, step)
    IN  /\ sess' = IF target = "raise"
                   THEN [sess EXCEPT ![t] = [s \in SymSet |-> NoRow]]
                   ELSE [sess EXCEPT ![t][sym] = IF target = "next" THEN NoRow ELSE r.row]
        /\ cur' = [cur EXCEPT ![t] = IF target \in {"raise", "next"} THEN NoCur ELSE c]
        /\ db' = IF r.commit
                 THEN [db EXCEPT ![sym] = Flush(@, sess[t][sym], r.row)]
                 ELSE db
        /\ orders' = IF r.commit THEN [orders EXCEPT ![sym] = @ \o r.ords] ELSE orders
        /\ filterCache' = [filterCache EXCEPT ![sym] = r.cache]
        /\ out' = Out(t, step, sym, r.inp, r.req, r.ev, r.exc)
        /\ pc' = [pc EXCEPT ![t] = PcAfter(target, idx[t])]
        /\ idx' = [idx EXCEPT ![t] = IdxAfter(target, idx[t])]

\* 109-139
ReconcileResult(t, sym, pos, ex, net, fr, price, bf, readsPx, readsBf) ==
    LET req  == <<Request("query_order", "-", 0, 0, FALSE, net)>>
        same == Res(pos, FALSE, <<>>, "go", NoInputs, <<>>, <<>>, "-", filterCache[sym])
        st   == IF net = "ok" THEN ex.status ELSE "-"
        inp  == Inputs("-", st, "-", None, None, None,
                       IF readsPx THEN Some(price) ELSE None,
                       IF readsBf THEN Some(bf) ELSE None)
    IN  IF ~ReconcileGuard(pos) THEN same
        ELSE IF net = "net_err"
             THEN [same EXCEPT !.next = "raise", !.req = req, !.exc = "httpx"]
        ELSE IF net = "exch_err"
             THEN [same EXCEPT !.req = req, !.exc = "MexcTradeError",
                               !.ev = Emit(t, Event("trade_error", sym))]
        ELSE IF st = "FILLED"
             THEN IF fr = None
                  THEN [same EXCEPT !.next = "raise", !.req = req, !.inp = inp,
                                    !.exc = "MexcError"]
                  ELSE Res(FillRow(pos, fr[1], ex.report, bf, price), TRUE, <<>>,
                           "go", inp, req, Emit(t, Event("trade_filled_buy", sym)),
                           "-", fr)
        ELSE IF IsCancelled(st)
             THEN Res(CancelRow(pos), TRUE, <<>>, "go", inp, req,
                      Emit(t, Event("trade_buy_cancelled", sym)), "-",
                      filterCache[sym])
        ELSE [same EXCEPT !.req = req, !.inp = inp]

\* 142-210
EntryResult(t, sym, pos, rec, recomputed, fr, price, qf, net) ==
    LET same  == Res(pos, FALSE, <<>>, "go", NoInputs, <<>>, <<>>, "-", filterCache[sym])
        atr   == GateRatio(rec, recomputed)
        f     == fr[1]
        pr    == RoundPrice(f, price)
        qty   == SizeOrder(f, pr, MAX_USDT)
        inp0  == Inputs("-", "-", rec.recommendation, None, None, None, None, None)
        inp1  == [inp0 EXCEPT !.atr = atr]
        inp1p == [inp1 EXCEPT !.price = Some(price)]
        inp2  == [inp1p EXCEPT !.sized = Some(qty)]
        req   == <<Request("new_order", "BUY", qty, pr, testOnly, net)>>
        oid   == OrderId(Len(orders[sym]) + 1)
    IN  IF pos.state # "flat" THEN same
        ELSE IF ~EntryGuard(pos, rec) THEN [same EXCEPT !.inp = inp0]
        ELSE IF GateBlocked(atr)
             THEN [same EXCEPT !.next = "continue", !.inp = inp1,
                               !.ev = Emit(t, Event("trade_skip", sym))]
        ELSE IF fr = None
             THEN [same EXCEPT !.next = "raise", !.inp = inp1, !.exc = "MexcError"]
        ELSE IF ~testOnly
             \* 163: RESERVE_PCT is bound nowhere in trader.py, so evaluating
             \* the live budget raises NameError; 164-168 are not reached.
             THEN [same EXCEPT !.next = "raise", !.inp = [inp1p EXCEPT !.qfree = Some(qf)],
                               !.exc = "NameError", !.cache = fr]
        ELSE IF qty <= 0
             THEN [same EXCEPT !.next = "continue", !.inp = inp2, !.cache = fr,
                               !.ev = Emit(t, Event("trade_skip", sym))]
        ELSE IF net = "net_err"
             THEN [same EXCEPT !.next = "raise", !.inp = inp2, !.cache = fr,
                               !.req = req, !.exc = "httpx"]
        ELSE IF net = "exch_err"
             THEN Res(pos, TRUE,
                      <<RejectedOrder(sym, "BUY", pr, qty)>>,
                      "continue", inp2, req, Emit(t, Event("trade_error", sym)),
                      "MexcTradeError", fr)
        ELSE Res(IF testOnly THEN TestBuyRow(pos, f, qty, pr)
                             ELSE LiveBuyRow(pos, pr, oid),
                 TRUE,
                 <<OrderRow(sym, "BUY", pr, qty, "NEW", testOnly, oid, FALSE)>>,
                 "go", inp2, req, Emit(t, Event("trade_buy_placed", sym)), "-", fr)

\* 213-250
ExitResult(t, sym, pos, fr, bf, net) ==
    LET same == Res(pos, FALSE, <<>>, "continue", NoInputs, <<>>, <<>>, "-",
                    filterCache[sym])
        f    == fr[1]
        tp   == RoundPrice(f, TpPrice(pos.avg_price[1]))
        qty  == SellQty(pos, f, bf)
        req  == <<Request("new_order", "SELL", qty, tp, testOnly, net)>>
        oid  == OrderId(Len(orders[sym]) + 1)
        inp  == [NoInputs EXCEPT !.bf = IF testOnly THEN None ELSE Some(bf)]
    IN  IF ~ExitGuard(pos) THEN same
        ELSE IF fr = None THEN [same EXCEPT !.next = "raise", !.exc = "MexcError"]
        ELSE IF qty <= 0 THEN [same EXCEPT !.cache = fr, !.inp = inp]
        ELSE IF net = "net_err"
             THEN [same EXCEPT !.next = "raise", !.cache = fr, !.req = req,
                               !.inp = inp, !.exc = "httpx"]
        ELSE IF net = "exch_err"
             THEN Res(pos, TRUE,
                      <<RejectedOrder(sym, "SELL", tp, qty)>>,
                      "continue", inp, req, Emit(t, Event("trade_error", sym)),
                      "MexcTradeError", fr)
        ELSE Res(SellRow(pos, oid), TRUE,
                 <<OrderRow(sym, "SELL", tp, qty, "NEW", testOnly, oid, FALSE)>>,
                 "continue", inp, req,
                 Emit(t, Event("trade_sell_tp_placed", sym)), "-", fr)

-----------------------------------------------------------------------------
(* Bounds *)

\* trader_tick executions started in one behaviour.
MaxTicks == 2

\* The largest budget drawn for a size_order call.
MaxBudget == 10

\* The largest price or quantity drawn for a round_price or round_qty call.
MaxValue == 7

\* The last second of the clock that placements are stamped with.
MaxClock == 2

\* Passes of trader_tick that one caller starts.
MaxPasses == 2

\* Order placements looked at together.
MaxPlacements == 3

\* Passes of recs_loop.
MaxRecsPasses == 3

\* Calls of symbol_filters for one symbol.
MaxCalls == 3

\* MAX_STEPS (agent_loop.py 14): the steps run_agent allows a run.
MAX_STEPS == 3

-----------------------------------------------------------------------------
(* trader_tick: the actions *)

NoSess == [s \in SymSet |-> NoRow]

\* 47-88: a tick starts.  With trading disabled it returns at once.  The
\* closes and the recommendation snapshot it reads here are inputs the tick
\* never alters; the steps below draw them where the code uses them.  In
\* live mode the balances are fetched, and a failure there (the exception
\* caught at 78) ends the tick.
\* Then the session loads every symbol's row and adds a flat Position for
\* each symbol that has none; with nothing added the commit of line 89
\* writes nothing.
TickStart(t) ==
    /\ pc[t] = "idle"
    /\ ticks < MaxTicks
    /\ ticks' = ticks + 1
    /\ \E acct \in (IF enabled /\ ~testOnly THEN {"ok", "fail"} ELSE {"ok"}) :
         IF ~enabled \/ acct = "fail"
         THEN /\ pc' = [pc EXCEPT ![t] = "returned"]
              /\ out' = IF acct = "fail"
                        THEN Out(t, "start", "-", NoInputs, <<>>,
                                 Emit(t, Event("trade_error", "-")), "account_info")
                        ELSE Quiet(t, "start")
              /\ UNCHANGED <<sess, pending, idx>>
         ELSE /\ sess' = [sess EXCEPT ![t] = [s \in SymSet |->
                             IF db[s] = NoRow THEN FlatRow ELSE db[s]]]
              /\ pending' = [pending EXCEPT ![t] = {s \in SymSet : db[s] = NoRow}]
              /\ pc' = [pc EXCEPT ![t] = IF \E s \in SymSet : db[s] = NoRow
                                         THEN "insert" ELSE "tradable"]
              /\ idx' = [idx EXCEPT ![t] = 1]
              /\ out' = Quiet(t, "start")
    /\ UNCHANGED <<call, testOnly, enabled, filterCache, exch, sellFilled, db,
                   orders, cur>>

\* 89: the commit that inserts the added rows.  symbol is the primary key:
\* the INSERT of a row that another execution has inserted meanwhile fails
\* and the exception leaves trader_tick.
EnsureCommit(t) ==
    /\ pc[t] = "insert"
    /\ pending' = [pending EXCEPT ![t] = {}]
    /\ IF \E s \in pending[t] : db[s] # NoRow
       THEN /\ pc' = [pc EXCEPT ![t] = "raised"]
            /\ out' = Out(t, "insert", "-", NoInputs, <<>>, <<>>, "IntegrityError")
            /\ sess' = [sess EXCEPT ![t] = NoSess]
            /\ db' = db
       ELSE /\ db' = [s \in SymSet |-> IF s \in pending[t] THEN FlatRow ELSE db[s]]
            /\ out' = Quiet(t, "insert")
            /\ pc' = [pc EXCEPT ![t] = "tradable"]
            /\ sess' = sess
    /\ UNCHANGED <<call, testOnly, enabled, filterCache, exch, sellFilled, orders,
                   idx, cur, ticks>>

\* 93-106: the tradability check, then the symbol's close.  A symbol that is
\* not tradable is skipped with an event; a symbol without a close (none
\* fetched, or 0) is skipped without one.
TradableResult(t, sym, pos, ok, info, hasClose) ==
    LET same == Res(pos, FALSE, <<>>, "go", NoInputs, <<>>, <<>>, "-", filterCache[sym])
    IN  IF ~ok THEN [same EXCEPT !.next = "raise", !.exc = "MexcError"]
        ELSE IF ~IsTradable(info)
             THEN [same EXCEPT !.next = "continue", !.inp.tradable = "no",
                               !.ev = Emit(t, Event("trade_skip", sym))]
        ELSE IF ~hasClose
             THEN [same EXCEPT !.next = "continue", !.inp.tradable = "noclose"]
        ELSE [same EXCEPT !.inp.tradable = "yes"]

CheckTradable(t) ==
    /\ pc[t] = "tradable"
    /\ LET sym == Symbols[idx[t]]
       IN  \E ok \in BOOLEAN :
           \E info \in (IF ok THEN ExInfos ELSE {CHOOSE i \in ExInfos : ~i.listed}) :
           \E hasClose \in (IF ok /\ IsTradable(info) THEN BOOLEAN ELSE {FALSE}) :
             Apply(t, "tradable", sym,
                   TradableResult(t, sym, sess[t][sym], ok, info, hasClose), NoCur)
    /\ UNCHANGED <<call, testOnly, enabled, exch, sellFilled, pending, ticks>>

\* 108-139: reconcile an opening position against the exchange.  The
\* request and the filter lookup are made only where the code makes them.
Reconcile(t) ==
    /\ pc[t] = "reconcile"
    /\ LET sym == Symbols[idx[t]]
           pos == sess[t][sym]
       IN  \E net \in NetOutcomes :
           \E ans \in (IF net = "ok" THEN PollAnswers(exch[sym]) ELSE {exch[sym]}) :
           \E fr \in (IF net = "ok" /\ ans.status = "FILLED"
                      THEN FetchOutcomes(sym) ELSE {None}) :
           LET readsBf == fr # None /\ ans.report.executedQty = None
           IN  \E bf \in (IF readsBf THEN ReadBaseFree(t) ELSE {0}) :
               LET readsPx == fr # None /\
                      (\/ ans.report.cummulativeQuoteQty = None
                       \/ (IF readsBf THEN bf ELSE ans.report.executedQty[1]) <= 0)
               IN  \E price \in (IF readsPx THEN ReadClose(t) ELSE {0}) :
                     /\ Apply(t, "reconcile", sym,
                              ReconcileResult(t, sym, pos, ans, net, fr, price, bf,
                                              readsPx, readsBf),
                              [price |-> IF readsPx THEN Some(price) ELSE cur[t].price,
                               bf    |-> IF readsBf THEN Some(bf) ELSE cur[t].bf])
                     /\ exch' = [exch EXCEPT ![sym] = IF Final(ans) THEN ans ELSE @]
    /\ UNCHANGED <<call, testOnly, enabled, sellFilled, pending, ticks>>

\* 141-210: entry from flat.  Candles are fetched again only when the cached
\* ratio is missing, filters only past the gate, and the order is sent only
\* for a positive quantity.
Entry(t) ==
    /\ pc[t] = "entry"
    /\ LET sym == Symbols[idx[t]]
           pos == sess[t][sym]
       IN  \E rec \in RecEntries :
           \E recomputed \in (IF EntryGuard(pos, rec) /\ rec.atr_ratio = None
                              THEN AtrRecomputed ELSE {None}) :
           \E fr \in (IF EntryGuard(pos, rec) /\ ~GateBlocked(GateRatio(rec, recomputed))
                      THEN FetchOutcomes(sym) ELSE {None}) :
           \E price \in (IF fr # None THEN ReadClose(t) ELSE {0}) :
           \E qf \in (IF fr # None /\ ~testOnly THEN QuoteFree ELSE {0}) :
           \E net \in (IF fr # None /\ testOnly
                          /\ SizeOrder(fr[1], RoundPrice(fr[1], price), MAX_USDT) > 0
                       THEN NetOutcomes ELSE {"ok"}) :
             Apply(t, "entry", sym,
                   EntryResult(t, sym, pos, rec, recomputed, fr, price, qf, net),
                   [cur[t] EXCEPT !.price = IF fr # None THEN Some(price) ELSE @])
    /\ UNCHANGED <<call, testOnly, enabled, exch, sellFilled, pending, ticks>>

\* 212-250: exit from long.
Exit(t) ==
    /\ pc[t] = "exit"
    /\ LET sym == Symbols[idx[t]]
           pos == sess[t][sym]
       IN  \E fr \in FetchOutcomes(sym) :
           \E bf \in (IF fr # None /\ ~testOnly THEN ReadBaseFree(t) ELSE {0}) :
           \E net \in (IF fr # None /\ SellQty(pos, fr[1], bf) > 0
                       THEN NetOutcomes ELSE {"ok"}) :
             Apply(t, "exit", sym, ExitResult(t, sym, pos, fr, bf, net), NoCur)
    /\ UNCHANGED <<call, testOnly, enabled, exch, sellFilled, pending, ticks>>

\* trader_tick is over: it returned, or an exception left it.  trader_loop
\* (257-261) reports the exception as trade_error and sleeps; the run-now
\* handler (main.py 55-56) lets it through.  The session is closed.
TickEnd(t) ==
    /\ pc[t] \in {"returned", "raised"}
    /\ pc' = [pc EXCEPT ![t] = "idle"]
    /\ idx' = [idx EXCEPT ![t] = 0]
    /\ sess' = [sess EXCEPT ![t] = NoSess]
    /\ out' = IF pc[t] = "raised" /\ t = "loop"
              THEN Out(t, "end", "-", NoInputs, <<>>, <<Event("trade_error", "-")>>, "-")
              ELSE Quiet(t, "end")
    /\ UNCHANGED <<call, testOnly, enabled, filterCache, exch, sellFilled, db,
                   orders, pending, cur, ticks>>

-----------------------------------------------------------------------------
(* The exchange *)

\* The live take-profit sells of symbol s that the exchange accepted
\* (229-237 with test=False).
RestingSells(s) ==
    {i \in DOMAIN orders[s] :
        /\ orders[s][i].side = "SELL"
        /\ orders[s][i].status = "NEW"
        /\ ~orders[s][i].is_test}

\* The exchange fills the resting take-profit sell of symbol s.  Nothing in
\* the program is told: trader_tick never polls last_sell_order, so where
\* within an execution the fill falls makes no difference to it, and the
\* fill is taken between executions.
SellFills(s) ==
    /\ \A t \in Ticks : pc[t] = "idle"
    /\ RestingSells(s) # {}
    /\ s \notin sellFilled
    /\ sellFilled' = sellFilled \cup {s}
    /\ out' = Out("exchange", "sellfill", s, NoInputs, <<>>, <<>>, "-")
    /\ UNCHANGED <<call, testOnly, enabled, filterCache, exch, db, orders, pc, idx,
                   sess, pending, cur, ticks>>

-----------------------------------------------------------------------------
(* The trader *)

NoCall == [fn |-> "none", f |-> Filters(0, 0, 0, 0), price |-> 0, budget |-> 0,
           res |-> 0]

\* The positions table outlives the process (db.py 8-12): a process starts
\* on the rows earlier runs committed.  A symbol has no row yet, a flat row,
\* or a row stored in opening whose buy order rests on the exchange.
StoredRows == {NoRow, FlatRow, OpeningRow}

Init ==
    /\ call = NoCall
    /\ testOnly \in BOOLEAN
    /\ enabled \in BOOLEAN
    /\ filterCache = [s \in SymSet |-> None]
    /\ db \in [SymSet -> StoredRows]
    /\ exch = [s \in SymSet |-> OpenOrder]
    /\ sellFilled = {}
    /\ orders = [s \in SymSet |-> <<>>]
    /\ pc = [t \in Ticks |-> "idle"]
    /\ idx = [t \in Ticks |-> 0]
    /\ sess = [t \in Ticks |-> NoSess]
    /\ pending = [t \in Ticks |-> {}]
    /\ cur = [t \in Ticks |-> NoCur]
    /\ out = Quiet("init", "init")
    /\ ticks = 0

Next ==
    \/ \E t \in Ticks : TickStart(t)
    \/ \E t \in Ticks : EnsureCommit(t)
    \/ \E t \in Ticks : CheckTradable(t)
    \/ \E t \in Ticks : Reconcile(t)
    \/ \E t \in Ticks : Entry(t)
    \/ \E t \in Ticks : Exit(t)
    \/ \E t \in Ticks : TickEnd(t)
    \/ \E s \in SymSet : SellFills(s)

Spec == Init /\ [][Next]_vars

-----------------------------------------------------------------------------
(* size_order on its own *)

\* Filter sets a symbol can have: step sizes (0: none reported), minimum
\* quantities and minimum notionals (5 is the MIN_NOTIONAL_FALLBACK_USDT
\* default that _parse_symbol_filters puts where none is reported).
SizingFilters ==
    {Filters(0, step, minq, minn) :
        step \in {0, 1, 2}, minq \in {0, 1, 2, 3}, minn \in {0, 5, 12}}

\* Prices a sizing call is made with (0: the call returns 0 at once).
SizingPrices == 0..4

\* The trader at rest, while a sizing call is looked at.
TraderAtRest ==
    /\ testOnly = TRUE
    /\ enabled = FALSE
    /\ filterCache = [s \in SymSet |-> None]
    /\ db = [s \in SymSet |-> NoRow]
    /\ exch = [s \in SymSet |-> OpenOrder]
    /\ sellFilled = {}
    /\ orders = [s \in SymSet |-> <<>>]
    /\ pc = [t \in Ticks |-> "idle"]
    /\ idx = [t \in Ticks |-> 0]
    /\ sess = [t \in Ticks |-> NoSess]
    /\ pending = [t \in Ticks |-> {}]
    /\ cur = [t \in Ticks |-> NoCur]
    /\ out = Quiet("init", "init")
    /\ ticks = 0

\* A call size_order(symbol, price, budget_usdt) about to be made.  Without
\* a step the quotients budget / price and min_notional / price are used as
\* they are, so the inputs drawn then divide exactly.
InitSizing ==
    /\ TraderAtRest
    /\ \E f \in SizingFilters, price \in SizingPrices, budget \in 0..MaxBudget :
         /\ f.stepSize = 0 /\ price > 0 =>
               budget % price = 0 /\ f.minNotional % price = 0
         /\ call = [fn |-> "none", f |-> f, price |-> price, budget |-> budget,
                    res |-> 0]

\* size_order runs and returns.
CallSizeOrder ==
    /\ call.fn = "none"
    /\ call' = [call EXCEPT !.fn = "size_order",
                            !.res = SizeOrder(call.f, call.price, call.budget)]
    /\ UNCHANGED traderVars

NextSizing == CallSizeOrder

SpecSizing == InitSizing /\ [][NextSizing]_vars

-----------------------------------------------------------------------------
(* C1 *)

\* C1: for every filter set and every price > 0 and budget > 0, the
\* quantity q that size_order returns costs at most the budget
\* (q * price <= budget) and is either 0 or worth at least min_notional.
C1_SizeWithinBudget ==
    (call.fn = "size_order" /\ call.price > 0 /\ call.budget > 0) =>
        /\ call.res * call.price <= call.budget
        /\ (call.res = 0 \/ call.res * call.price >= call.f.minNotional)

-----------------------------------------------------------------------------
(* C2 *)

\* C2: after any sequence of trader_tick runs, in simulation or live mode,
\* every stored Position row with qty > 0 has state long or closing: no
\* row in flat or opening holds a positive quantity.
C2_PositiveQtyIsHeld ==
    \A s \in SymSet : db[s].qty > 0 => db[s].state \in {"long", "closing"}

\* A live poll has just found the buy order filled and stored a quantity.
C2_FilledLong ==
    /\ ~testOnly
    /\ out.step = "reconcile"
    /\ out.inp.poll = "FILLED"
    /\ db[out.sym].qty > 0
    /\ db[out.sym].state = "long"

-----------------------------------------------------------------------------
(* C3 *)

\* The entry block has just placed a BUY or changed the symbol's stored row
\* or order rows.
EntryActed ==
    /\ out'.step = "entry"
    /\ \/ out'.req # <<>>
       \/ db'[out'.sym] # db[out'.sym]
       \/ orders'[out'.sym] # orders[out'.sym]

-----------------------------------------------------------------------------
(* C4 *)

\* The accepted BUY orders stored for a symbol.
AcceptedBuys(s) ==
    {i \in DOMAIN orders[s] : orders[s][i].side = "BUY" /\ orders[s][i].status = "NEW"}

\* C4: no two executions of trader_tick interleave their read-then-write
\* on one symbol's Position row, so the trader_loop tick and a run-now tick
\* never both read the same flat position and both place a BUY: one flat
\* episode of a symbol yields at most one accepted BUY.  (A row that has
\* left flat through a BUY does not come back to flat, so a symbol has one
\* flat episode with a BUY at most.)
C4_OneBuyPerFlatEpisode ==
    \A s \in SymSet : Cardinality(AcceptedBuys(s)) <= 1

-----------------------------------------------------------------------------
(* C5 *)

\* The step just taken worked on a symbol and a request of it failed: the
\* tradability lookup or filter fetch (MexcError, or httpx on the wire), the
\* order-status poll or the order placement (MexcTradeError, httpx).
SymbolStepFailed ==
    /\ out'.step \in {"tradable", "reconcile", "entry", "exit"}
    /\ out'.exc \in {"MexcError", "MexcTradeError", "httpx"}

\* C5: when processing one symbol fails inside a tick, the tick goes on:
\* the execution is not left by the exception, and the later symbols of
\* the list are still processed in that tick.
C5_FailureDoesNotAbortTick ==
    [][SymbolStepFailed => pc'[out'.by] # "raised"]_vars

-----------------------------------------------------------------------------
(* C6 *)

\* The stored row of symbol s leaves opening for long in this step.
OpeningToLong(s) == db[s].state = "opening" /\ db'[s].state = "long"

\* The step is a live poll of s that answered FILLED.
FilledPoll(s) ==
    /\ ~testOnly
    /\ out'.step = "reconcile"
    /\ out'.sym = s
    /\ out'.inp.poll = "FILLED"

\* C6 as stated: in live mode a position leaves opening for long only when
\* the polled status is FILLED; then qty is the reported executedQty
\* floored to the step and avg_price is cummulativeQuoteQty / executedQty
\* floored to the tick when the exchange reports them, and otherwise
\* avg_price is the price observed in that tick.
C6_FillAsStated ==
    [][\A s \in SymSet : OpeningToLong(s) =>
          /\ FilledPoll(s)
          /\ LET f   == filterCache'[s][1]
                 rep == exch'[s].report
             IN  IF rep.executedQty # None /\ rep.cummulativeQuoteQty # None
                 THEN /\ db'[s].qty = QuantizeDown(rep.executedQty[1], f.stepSize)
                      /\ db'[s].avg_price =
                            Some(QuantizeDown(rep.cummulativeQuoteQty[1]
                                                \div rep.executedQty[1], f.tickSize))
                 ELSE \E p \in Closes :
                        /\ out'.inp.price # None => p = out'.inp.price[1]
                        /\ db'[s].avg_price = Some(p)]_vars

\* C6, amended: in live mode a position leaves opening for long only when
\* the polled status is FILLED; then qty is round_qty of the filled
\* quantity, which is the reported executedQty or, when none is reported,
\* the free base balance of the tick; avg_price is cummulativeQuoteQty
\* divided by that filled quantity, floored to the tick, when a
\* cummulativeQuoteQty is reported and the filled quantity is positive, and
\* otherwise the price observed in that tick floored to the tick.
C6_FillFromPoll ==
    [][\A s \in SymSet : OpeningToLong(s) =>
          /\ FilledPoll(s)
          /\ LET f  == filterCache'[s][1]
                 rep == exch'[s].report
                 q  == IF rep.executedQty # None THEN rep.executedQty[1]
                       ELSE out'.inp.bf[1]
                 cq == rep.cummulativeQuoteQty
                 fl == QuantizeDown(q, f.stepSize)
             IN  /\ db'[s].qty = IF f.minQty # 0 /\ fl < f.minQty THEN f.minQty ELSE fl
                 /\ db'[s].avg_price =
                       IF cq # None /\ q > 0
                       THEN Some(QuantizeDown(cq[1] \div q, f.tickSize))
                       ELSE Some(QuantizeDown(out'.inp.price[1], f.tickSize))]_vars

\* A FILLED poll without a fill report has stored the observed price,
\* floored to a tick it is not a multiple of.
C6_FallbackPriceStored ==
    /\ ~testOnly
    /\ out.step = "reconcile"
    /\ out.inp.poll = "FILLED"
    /\ exch[out.sym].report.cummulativeQuoteQty = None
    /\ out.inp.price # None
    /\ db[out.sym].state = "long"
    /\ db[out.sym].avg_price # Some(out.inp.price[1])
    /\ db[out.sym].avg_price =
          Some(QuantizeDown(out.inp.price[1], filterCache[out.sym][1].tickSize))

-----------------------------------------------------------------------------
(* C7 *)

\* C7: in live mode, when the poll of an opening position's buy order
\* answers CANCELED or REJECTED, the position is stored as flat with its
\* last_buy_order cleared and qty still 0.
C7_CancelResetsToFlat ==
    (out.step = "reconcile" /\ out.inp.poll \in {"CANCELED", "REJECTED"}) =>
        /\ ~testOnly
        /\ db[out.sym].state = "flat"
        /\ db[out.sym].last_buy_order = None
        /\ db[out.sym].qty = 0

\* A poll has answered CANCELED for a row stored in opening with an order
\* reference, and the row is flat now.
C7_CancelledPoll ==
    /\ out.step = "reconcile"
    /\ out.inp.poll = "CANCELED"
    /\ out.req # <<>>
    /\ db[out.sym].state = "flat"
    /\ db[out.sym].last_buy_order = None

-----------------------------------------------------------------------------
(* C8 *)

\* The step is a live poll that answered a status other than FILLED,
\* CANCELED and REJECTED, or that failed with an exchange error.
PollWithoutVerdict ==
    /\ out'.step = "reconcile"
    /\ \/ out'.inp.poll \in {"NEW", "PARTIALLY_FILLED"}
       \/ out'.exc = "MexcTradeError"

\* C8: in live mode, when the poll of an opening position's buy order
\* answers anything but FILLED, CANCELED or REJECTED, or fails with an
\* exchange error, the tick leaves the stored row as it is (the row it
\* holds being in opening) and places no order for that symbol: it goes on
\* to the next symbol.
C8_PollWithoutVerdictKeepsRow ==
    [][PollWithoutVerdict =>
          /\ ~testOnly
          /\ sess[out'.by][out'.sym].state = "opening"
          /\ db'[out'.sym] = db[out'.sym]
          /\ orders' = orders
          /\ \A i \in DOMAIN out'.req : out'.req[i].op # "new_order"
          /\ pc'[out'.by] \in {"tradable", "returned"}]_vars

\* A poll has answered PARTIALLY_FILLED and the row is still in opening.
C8_StillOpening ==
    /\ out.step = "reconcile"
    /\ out.inp.poll = "PARTIALLY_FILLED"
    /\ db[out.sym].state = "opening"
    /\ db[out.sym].last_buy_order # None

-----------------------------------------------------------------------------
(* C9 *)

\* The entry step just taken had a BUY or ACCUMULATE recommendation, passed
\* the volatility gate, got the symbol's filters and, in live mode, saw a
\* positive free quote balance.
EntrySignalled ==
    /\ out'.step = "entry"
    /\ out'.inp.rec \in {"BUY", "ACCUMULATE"}
    /\ (out'.inp.atr = None \/ out'.inp.atr[1] >= VOL_RATIO_MIN)
    /\ out'.inp.price # None
    /\ filterCache'[out'.sym] # None
    /\ (~testOnly => out'.inp.qfree # None /\ out'.inp.qfree[1] >= MAX_USDT)

\* C9: when a flat symbol has recommendation BUY or ACCUMULATE, passes the
\* volatility gate and size_order returns q > 0, the tick places a LIMIT
\* BUY for q at the tick-rounded price and, when the exchange accepts it,
\* stores the position as opening with qty 0 and last_buy_order the
\* exchange's order id in live mode (given a positive free quote balance),
\* or as long with qty q and avg_price the rounded price in simulation mode.
C9_SignalPlacesBuy ==
    [][EntrySignalled =>
          LET s   == out'.sym
              f   == filterCache'[s][1]
              pr  == QuantizeDown(out'.inp.price[1], f.tickSize)
              q   == SizeOrder(f, pr, MAX_USDT)
          IN  q > 0 =>
                /\ Len(out'.req) = 1
                /\ out'.req[1].op = "new_order"
                /\ out'.req[1].side = "BUY"
                /\ out'.req[1].qty = q
                /\ out'.req[1].price = pr
                /\ out'.req[1].result = "ok" =>
                      IF testOnly
                      THEN /\ db'[s].state = "long"
                           /\ db'[s].qty = q
                           /\ db'[s].avg_price = Some(pr)
                      ELSE /\ db'[s].state = "opening"
                           /\ db'[s].qty = 0
                           /\ db'[s].last_buy_order # None]_vars

-----------------------------------------------------------------------------
(* C10 *)

\* C10: a take-profit SELL is placed only for a position in long with
\* qty > 0 and avg_price > 0, and in live mode, where no SELL is placed
\* without a free base balance, its quantity exceeds neither the free
\* base-asset balance seen in that tick nor the position's qty.
C10_SellWithinHolding ==
    [][(out'.step = "exit" /\ out'.req # <<>>) =>
          LET pos == sess[out'.by][out'.sym]
          IN  /\ out'.req[1].side = "SELL"
              /\ pos.state = "long"
              /\ pos.qty > 0
              /\ OrZero(pos.avg_price) > 0
              /\ out'.req[1].qty <= pos.qty
              /\ ~testOnly =>
                    /\ out'.inp.bf # None
                    /\ out'.inp.bf[1] > 0
                    /\ out'.req[1].qty <= out'.inp.bf[1]]_vars

-----------------------------------------------------------------------------
(* C11 *)

\* The step just taken ends an execution's work on a tradable symbol with
\* a close, whose row it holds in closing and whose take-profit sell the
\* exchange had filled before.
PassedOverSoldPosition ==
    /\ out'.step = "tradable"
    /\ out'.inp.tradable = "yes"
    /\ out'.sym \in sellFilled
    /\ sess[out'.by][out'.sym].state = "closing"
    /\ (idx'[out'.by] # idx[out'.by] \/ pc'[out'.by] = "returned")

\* C11: the position lifecycle returns to flat: once the take-profit sell
\* of a closing position has filled, the row is reset to flat with qty 0
\* (by the tick that next processes the symbol), so that the symbol can be
\* entered again.
C11_FilledSellResetsToFlat ==
    [][PassedOverSoldPosition =>
          /\ db'[out'.sym].state = "flat"
          /\ db'[out'.sym].qty = 0]_vars

-----------------------------------------------------------------------------
(* C12 *)

\* The entry step just taken sent a BUY to the exchange.
BuySent ==
    /\ out'.step = "entry"
    /\ out'.req # <<>>
    /\ out'.req[1].op = "new_order"
    /\ out'.req[1].side = "BUY"

\* C12: every BUY placement is preceded in the same tick by a volatility
\* check that succeeded: the atr_ratio used (cached, or recomputed when the
\* cached one is missing) is known and at least the configured minimum; no
\* BUY is placed when the ratio is unavailable.
C12_BuyNeedsKnownRatio ==
    [][BuySent =>
          /\ out'.inp.atr # None
          /\ out'.inp.atr[1] >= VOL_RATIO_MIN]_vars

-----------------------------------------------------------------------------
(* C13 *)

\* The entry step just taken was for a BUY or ACCUMULATE recommendation
\* with an atr_ratio below the configured minimum.
GateBlockedEntry ==
    /\ out'.step = "entry"
    /\ out'.inp.rec \in {"BUY", "ACCUMULATE"}
    /\ out'.inp.atr # None
    /\ out'.inp.atr[1] < VOL_RATIO_MIN

\* C13: when a flat symbol with a BUY or ACCUMULATE recommendation has an
\* atr_ratio below the configured minimum, the tick emits a trade_skip
\* event for it, places no order, writes no order record and leaves the
\* position flat; it is not reported as an error.
C13_BlockedGateIsReportedSkip ==
    [][GateBlockedEntry =>
          /\ out'.ev = <<Event("trade_skip", out'.sym)>>
          /\ out'.req = <<>>
          /\ orders' = orders
          /\ db'[out'.sym] = db[out'.sym]
          /\ sess[out'.by][out'.sym].state = "flat"
          /\ out'.exc = "-"
          /\ pc'[out'.by] # "raised"]_vars

-----------------------------------------------------------------------------
(* C14 *)

\* C14: after any sequence of ticks, every stored Position row in state
\* flat has qty 0 and no buy-order reference (last_buy_order is absent).
C14_FlatHoldsNothing ==
    \A s \in SymSet :
        db[s].state = "flat" => db[s].qty = 0 /\ db[s].last_buy_order = None

\* A row that was in opening with an order reference is flat again after
\* the exchange cancelled or rejected the order.
C14_FlatAfterCancel ==
    \E s \in SymSet :
        /\ db[s].state = "flat"
        /\ db[s].avg_price # None
        /\ exch[s].status \in {"CANCELED", "REJECTED"}

-----------------------------------------------------------------------------
(* C15 *)

\* C15: after any sequence of ticks, a Position row has avg_price set only
\* when its qty > 0: every row a tick stores with qty 0, flat or opening,
\* has no avg_price.
C15_AvgPriceOnlyWithQty ==
    [][\A s \in SymSet :
          db'[s] # db[s] => (db'[s].avg_price # None => db'[s].qty > 0)]_vars

-----------------------------------------------------------------------------
(* round_price and round_qty on their own *)

\* Filter sets for a rounding call: tick and step sizes (0: none reported)
\* and minimum quantities, a multiple of the step or not.
RoundingFilters ==
    {Filters(tick, step, minq, 5) :
        tick \in {0, 1, 2, 3}, step \in {0, 1, 2, 3}, minq \in {0, 1, 2, 3}}

\* A call round_price(symbol, x) or round_qty(symbol, x) about to be made,
\* with x a price or quantity that is not negative.
InitRounding ==
    /\ TraderAtRest
    /\ \E f \in RoundingFilters, x \in 0..MaxValue :
         call = [fn |-> "none", f |-> f, x |-> x, res |-> 0, again |-> 0]

\* round_price runs and returns; `again` is what a second call on the
\* result returns.
CallRoundPrice ==
    /\ call.fn = "none"
    /\ call' = [call EXCEPT !.fn = "round_price",
                            !.res = RoundPrice(call.f, call.x),
                            !.again = RoundPrice(call.f, RoundPrice(call.f, call.x))]
    /\ UNCHANGED traderVars

\* round_qty runs and returns; `again` is what a second call on the result
\* returns.
CallRoundQty ==
    /\ call.fn = "none"
    /\ call' = [call EXCEPT !.fn = "round_qty",
                            !.res = RoundQty(call.f, call.x),
                            !.again = RoundQty(call.f, RoundQty(call.f, call.x))]
    /\ UNCHANGED traderVars

NextRounding == CallRoundPrice \/ CallRoundQty

SpecRounding == InitRounding /\ [][NextRounding]_vars

-----------------------------------------------------------------------------
(* C16 *)

\* C16 as stated: for every qty and every filter set with step_size > 0,
\* the output of round_qty is a multiple of step_size and is >= min_qty.
C16_MultipleAndAtLeastMin ==
    (call.fn = "round_qty" /\ call.f.stepSize > 0) =>
        /\ call.res % call.f.stepSize = 0
        /\ call.res >= call.f.minQty

\* C16, amended: for every qty >= 0 and every filter set with
\* step_size > 0, the output of round_qty is >= min_qty; it is exactly
\* min_qty when qty floored to the step is below min_qty, and otherwise the
\* largest multiple of step_size at or below qty.  So it is a multiple of
\* step_size unless it was raised to a min_qty that is not one.
C16_FlooredOrRaisedToMin ==
    (call.fn = "round_qty" /\ call.f.stepSize > 0) =>
        LET step == call.f.stepSize
            minq == call.f.minQty
        IN  /\ call.res >= minq
            /\ \/ /\ call.res = minq
                  /\ call.x - (call.x % step) < minq
               \/ /\ call.res % step = 0
                  /\ call.res <= call.x
                  /\ call.x < call.res + step
            /\ minq % step = 0 => call.res % step = 0

\* round_qty has raised a quantity to a min_qty that is no multiple of the
\* step.
C16_RaisedOffStep ==
    /\ call.fn = "round_qty"
    /\ call.f.stepSize > 0
    /\ call.res = call.f.minQty
    /\ call.res > call.x
    /\ call.res % call.f.stepSize # 0

-----------------------------------------------------------------------------
(* C17 *)

\* C17: for every price > 0 and tick_size > 0, the output of round_price
\* is a multiple of tick_size, is <= price, and is the largest such
\* multiple: price minus output is less than tick_size.
C17_LargestTickMultipleBelow ==
    (call.fn = "round_price" /\ call.x > 0 /\ call.f.tickSize > 0) =>
        /\ call.res % call.f.tickSize = 0
        /\ call.res <= call.x
        /\ call.x - call.res < call.f.tickSize

\* round_price has floored a price that is no multiple of the tick.
C17_PriceFloored ==
    /\ call.fn = "round_price"
    /\ call.f.tickSize > 0
    /\ call.res > 0
    /\ call.res < call.x

-----------------------------------------------------------------------------
(* C18 *)

\* C18: round_price and round_qty are idempotent for every input and
\* filter set: round_price(round_price(p)) = round_price(p) and
\* round_qty(round_qty(q)) = round_qty(q).
C18_RoundingIdempotent ==
    call.fn \in {"round_price", "round_qty"} => call.again = call.res

\* A rounding call has changed its input, by flooring or by the raise to
\* min_qty, and a second call has left the result as it is.
C18_ChangedOnceOnly ==
    /\ call.fn = "round_qty"
    /\ call.res # call.x
    /\ call.res % 2 = 1
    /\ call.f.stepSize = 2
    /\ call.again = call.res

-----------------------------------------------------------------------------
(* C19 *)

\* The least multiple of the step whose notional at `price` is at least
\* min_notional.
LeastClearing(f, price) ==
    f.stepSize * ((f.minNotional + price * f.stepSize - 1) \div (price * f.stepSize))

\* A size_order call has returned, made with a step and with a budget
\* large enough to meet min_notional: the least clearing quantity costs no
\* more than the budget.
SizedWithEnoughBudget ==
    /\ call.fn = "size_order"
    /\ call.price > 0
    /\ call.budget > 0
    /\ call.f.stepSize > 0
    /\ LeastClearing(call.f, call.price) * call.price <= call.budget

\* C19 as stated: when the budget is large enough to meet min_notional,
\* size_order returns the smallest quantity that is a multiple of step_size
\* and whose notional is >= min_notional (a min_notional being set).
C19_ReturnsLeastClearing ==
    (SizedWithEnoughBudget /\ call.f.minNotional > 0) =>
        call.res = LeastClearing(call.f, call.price)

\* C19, amended: when the budget is large enough to meet min_notional,
\* size_order returns the largest multiple of step_size whose notional is
\* within the budget, or min_qty when that multiple is below min_qty; the
\* notional of what it returns is >= min_notional.
C19_ReturnsLargestAffordable ==
    SizedWithEnoughBudget =>
        LET step  == call.f.stepSize
            whole == call.budget \div (call.price * step)
            most  == whole * step
        IN  /\ call.res = IF most < call.f.minQty THEN call.f.minQty ELSE most
            /\ call.res * call.price >= call.f.minNotional

\* A call with budget to spare has returned more than the least clearing
\* quantity: price 2, budget 10, step 1, min_notional 5 gives 5, not 3.
C19_MoreThanLeast ==
    /\ SizedWithEnoughBudget
    /\ call.f.minNotional > 0
    /\ call.price = 2
    /\ call.budget = 10
    /\ call.res = 5
    /\ LeastClearing(call.f, call.price) = 3

-----------------------------------------------------------------------------
(* C20 *)

\* C20: when no quantity can meet min_notional within the budget (the
\* least multiple of the step that clears min_notional costs more than the
\* budget), size_order returns 0, which the tick then treats as a skip.
C20_UnaffordableSizesToZero ==
    (/\ call.fn = "size_order"
     /\ call.price > 0
     /\ call.budget > 0
     /\ call.f.stepSize > 0
     /\ call.f.minNotional > 0
     /\ LeastClearing(call.f, call.price) * call.price > call.budget)
    => call.res = 0

-----------------------------------------------------------------------------
(* C21 *)

\* The step just taken is a tick start whose balance fetch failed.
BalanceFetchFailed ==
    /\ out'.step = "start"
    /\ out'.exc = "account_info"

\* C21: in live mode, when fetching the account balances fails at the start
\* of a tick, the whole tick is aborted: one trade_error event is emitted
\* and the tick returns, with no Position row created or changed, no order
\* polled or placed and no order record written.
C21_BalanceFailureAbortsTick ==
    [][BalanceFetchFailed =>
          /\ out'.ev = <<Event("trade_error", "-")>>
          /\ pc'[out'.by] = "returned"
          /\ out'.req = <<>>
          /\ db' = db
          /\ orders' = orders
          /\ exch' = exch]_vars

-----------------------------------------------------------------------------
(* C22 *)

\* The step just taken sent an order placement that the exchange answered
\* with an error.
PlacementRejected ==
    /\ out'.step \in {"entry", "exit"}
    /\ out'.req # <<>>
    /\ out'.req[1].op = "new_order"
    /\ out'.req[1].result = "exch_err"

\* C22: when the exchange rejects an order placement (BUY or SELL), exactly
\* one order record with status REJECTED and the error text is appended,
\* the position's stored row (state, qty, order references) is left as it
\* was, and the order is not sent again in the same tick: one request was
\* made and the execution moves on to the next symbol, so that the row a
\* later tick loads still meets the conditions and the placement is tried
\* again then.
C22_RejectionRecordedRowKept ==
    [][PlacementRejected =>
          LET s == out'.sym
              t == out'.by
          IN  /\ Len(orders'[s]) = Len(orders[s]) + 1
              /\ SubSeq(orders'[s], 1, Len(orders[s])) = orders[s]
              /\ orders'[s][Len(orders'[s])].status = "REJECTED"
              /\ orders'[s][Len(orders'[s])].error
              /\ orders'[s][Len(orders'[s])].side = out'.req[1].side
              /\ orders'[s][Len(orders'[s])].mexc_order_id = None
              /\ \A o \in SymSet \ {s} : orders'[o] = orders[o]
              /\ db' = db
              /\ Len(out'.req) = 1
              /\ \/ pc'[t] = "returned"
                 \/ pc'[t] = "tradable" /\ idx'[t] = idx[t] + 1]_vars

\* A placement was rejected in one tick and the same placement was sent
\* again, and accepted, in a later tick.
C22_RetriedOnLaterTick ==
    \E s \in SymSet :
        /\ Len(orders[s]) >= 2
        /\ orders[s][1].status = "REJECTED"
        /\ orders[s][2].status = "NEW"
        /\ orders[s][2].side = orders[s][1].side
        /\ orders[s][2].qty = orders[s][1].qty
        /\ db[s].state \in {"long", "closing"}

-----------------------------------------------------------------------------
(* C23 *)

\* The step just taken left its symbol without acting on it: the symbol is
\* not tradable (95-98) or has no close (100-102), the gate blocked the
\* entry (153-156), the sizing came to nothing (170-173), or there was no
\* base balance to sell (220-226).
SymbolSkipped ==
    \/ out'.step = "tradable" /\ out'.inp.tradable \in {"no", "noclose"}
    \/ out'.step = "entry" /\ GateBlockedEntry
    \/ out'.step = "entry" /\ out'.inp.sized = Some(0)
    \/ out'.step = "exit" /\ out'.req = <<>> /\ out'.exc = "-"

\* The step just taken did something to report: it skipped its symbol,
\* placed an order, changed a stored Position row (a fill, a cancellation,
\* a placement), or met an error that it caught.
Reportable ==
    /\ out'.step \in {"tradable", "reconcile", "entry", "exit"}
    /\ \/ SymbolSkipped
       \/ out'.req # <<>> /\ out'.req[1].op = "new_order" /\ out'.req[1].result = "ok"
       \/ db' # db
       \/ out'.exc # "-" /\ pc'[out'.by] # "raised"

\* C23: every skip, order placement, fill, cancellation and error that
\* happens in a tick is emitted as one notification event to the broadcast
\* sink, in ticks run by the scheduled loop as well as on demand: no symbol
\* is skipped and no position changed without its event.
C23_EveryOutcomeIsEmitted ==
    [][Reportable => Len(out'.ev) = 1 /\ out'.ev[1].symbol = out'.sym]_vars

-----------------------------------------------------------------------------
(* C24 *)

\* What trader_tick returns: its two `return` statements (49, 81) carry no
\* value and the function otherwise runs off its end, so every pass
\* returns None.
TickReturn == None

\* main.py 56: the count the run-now endpoint reports, int(actions or 0).
RunNowActions(ret) == OrZero(ret)

\* The step just taken is the last of an on-demand pass, which returns, and
\* it placed an order or moved a position to another state: an action of
\* that pass.
ActedAndReturned ==
    /\ out'.by = "now"
    /\ out'.step \in {"reconcile", "entry", "exit"}
    /\ pc'["now"] = "returned"
    /\ \/ out'.req # <<>> /\ out'.req[1].op = "new_order" /\ out'.req[1].result = "ok"
       \/ db'[out'.sym].state # db[out'.sym].state

\* C24: trader_tick returns the count of actions taken in that pass (the
\* orders placed and state transitions performed) and the run-now endpoint
\* reports that count; a pass that places an order or moves a position in
\* its last step therefore reports a count of at least one.
C24_ReportedCountCoversActions ==
    [][ActedAndReturned => RunNowActions(TickReturn) >= 1]_vars

-----------------------------------------------------------------------------
(* C25 *)

\* The step just taken found its symbol not tradable: the exchange lists
\* no metadata for it, or a status other than enabled, or no spot trading.
FoundNotTradable ==
    /\ out'.step = "tradable"
    /\ out'.inp.tradable = "no"

\* C25: for a symbol that the exchange reports in a tick as not tradable,
\* that tick places no order and changes no position: the symbol is skipped
\* with a trade_skip event, and the execution goes on to the next symbol.
C25_NotTradableIsReportedSkip ==
    [][FoundNotTradable =>
          /\ out'.ev = <<Event("trade_skip", out'.sym)>>
          /\ out'.req = <<>>
          /\ db' = db
          /\ orders' = orders
          /\ \/ pc'[out'.by] = "returned"
             \/ pc'[out'.by] = "tradable" /\ idx'[out'.by] = idx[out'.by] + 1]_vars

-----------------------------------------------------------------------------
(* symbol_filters on its own *)

\* MIN_NOTIONAL_FALLBACK_USDT, the default of line 137.
MinNotionalFallback == 5

\* _as_dec of a field that may be missing: Decimal(str(None)) is an invalid
\* literal, and the `except` returns the default Decimal("0").
AsDec(o) == OrZero(o)

\* One entry of a symbol's "filters" list.
Filter(ftype, tick, step, minq, minn) ==
    [filterType |-> ftype, tickSize |-> tick, stepSize |-> step, minQty |-> minq,
     minNotional |-> minn]

\* One entry of the "symbols" list of an exchangeInfo response.  Sizes are
\* whole numbers of 1/100; a precision is a number of decimals.
SymbolObject(fs, bsp, bap, qp, qap) ==
    [filters |-> fs, baseSizePrecision |-> bsp, baseAssetPrecision |-> bap,
     quotePrecision |-> qp, quoteAssetPrecision |-> qap]

\* 149: the object parsed when the response lists no symbol, `{}`.
EmptyObject == SymbolObject(<<>>, None, None, None, None)

\* Decimal(1) / Decimal(10) ** digits, in 1/100.
PrecisionStep(digits) == IF digits = 0 THEN 100 ELSE IF digits = 1 THEN 10 ELSE 1

\* 96-104: the substring tests on the upper-cased filter type.
IsPriceFilter(ftype) == ftype \in {"PRICE_FILTER", "PERCENT_PRICE"}

IsLotFilter(ftype) == ftype \in {"LOT_SIZE"}

IsNotionalFilter(ftype) == ftype \in {"MIN_NOTIONAL"}

\* 91: the result before anything is read.
NoFilterValues ==
    [tickSize |-> None, stepSize |-> None, minQty |-> None, minNotional |-> None]

\* 95-104: the loop over the filters list, each entry overwriting what an
\* earlier one set.
RECURSIVE ReadFilters(_, _)
ReadFilters(fs, res) ==
    IF fs = <<>> THEN res
    ELSE LET f  == Head(fs)
             r1 == IF IsPriceFilter(f.filterType)
                   THEN [res EXCEPT !.tickSize = Some(AsDec(f.tickSize))] ELSE res
             r2 == IF IsLotFilter(f.filterType)
                   THEN [r1 EXCEPT !.stepSize = Some(AsDec(f.stepSize)),
                                   !.minQty = IF f.minQty # None
                                              THEN Some(AsDec(f.minQty)) ELSE @]
                   ELSE r1
             r3 == IF IsNotionalFilter(f.filterType)
                   THEN [r2 EXCEPT !.minNotional = Some(AsDec(f.minNotional))] ELSE r2
         IN  ReadFilters(Tail(fs), r3)

\* 107-133: the fallbacks taken when the filters list is missing or empty.
PrecisionFallbacks(obj, res) ==
    LET step1 == IF obj.baseSizePrecision # None
                 THEN Some(AsDec(obj.baseSizePrecision)) ELSE res.stepSize
        step2 == IF step1 \in {None, Some(0)} /\ obj.baseAssetPrecision # None
                 THEN Some(PrecisionStep(obj.baseAssetPrecision[1])) ELSE step1
        qp    == obj.quotePrecision
        qap   == IF obj.quoteAssetPrecision = None THEN qp ELSE obj.quoteAssetPrecision
        prec1 == qp
        prec2 == IF qap # None
                 THEN Some(IF OrZero(prec1) > qap[1] THEN OrZero(prec1) ELSE qap[1])
                 ELSE prec1
    IN  [res EXCEPT
            !.stepSize = step2,
            !.tickSize = IF prec2 # None THEN Some(PrecisionStep(prec2[1])) ELSE @,
            !.minQty = IF @ = None /\ step2 \notin {None, Some(0)} THEN step2 ELSE @]

\* _parse_symbol_filters
ParseSymbolFilters(obj) ==
    LET read == ReadFilters(obj.filters, NoFilterValues)
        fell == IF obj.filters = <<>> THEN PrecisionFallbacks(obj, read) ELSE read
    IN  [fell EXCEPT !.minNotional = IF OrZero(@) = 0
                                     THEN Some(MinNotionalFallback) ELSE @]

\* The filters as their users read them: `f.get(k) or Decimal("0")`.
FiltersOf(parsed) ==
    Filters(OrZero(parsed.tickSize), OrZero(parsed.stepSize), OrZero(parsed.minQty),
            OrZero(parsed.minNotional))

\* symbol_filters without a cache entry: how the call ends and what it
\* returns.  `ok` is whether the exchangeInfo request was answered with
\* status 200 (else _get raises MexcError), `listed` whether the answer's
\* "symbols" list holds the symbol's object.
SymbolFilters(ok, listed, obj) ==
    IF ~ok THEN [exc |-> "MexcError", val |-> NoFilterValues]
    ELSE [exc |-> "-", val |-> ParseSymbolFilters(IF listed THEN obj ELSE EmptyObject)]

\* Filter lists an exchange reports.
FilterLists ==
    {<<>>,
     <<Filter("PRICE_FILTER", Some(1), None, None, None)>>,
     <<Filter("PRICE_FILTER", Some(1), None, None, None),
       Filter("LOT_SIZE", None, Some(2), None, None)>>,
     <<Filter("PRICE_FILTER", Some(1), None, None, None),
       Filter("LOT_SIZE", None, Some(2), Some(3), None),
       Filter("MIN_NOTIONAL", None, None, None, Some(12))>>,
     <<Filter("LOT_SIZE", None, Some(2), None, None),
       Filter("MIN_NOTIONAL", None, None, None, Some(0))>>,
     <<Filter("PRICE_FILTER", Some(1), None, None, None),
       Filter("PERCENT_PRICE", None, None, None, None)>>}

\* Symbol objects an exchange reports.
SymbolObjects ==
    {SymbolObject(fs, bsp, bap, qp, qap) :
        fs \in FilterLists, bsp \in {None, Some(0), Some(10)},
        bap \in {None, Some(1)}, qp \in {None, Some(0), Some(2)},
        qap \in {None, Some(1)}}

\* A first call symbol_filters(symbol) about to be made for the first
\* symbol of the universe, and the exchangeInfo answer it will get.
InitFilters ==
    /\ TraderAtRest
    /\ \E ok \in BOOLEAN, listed \in BOOLEAN, obj \in SymbolObjects :
         /\ ~(ok /\ listed) => obj = EmptyObject
         /\ call = [fn |-> "none", ok |-> ok, listed |-> listed, obj |-> obj,
                    exc |-> "-", val |-> NoFilterValues]

\* symbol_filters runs: it raises, or caches the parsed filters and returns
\* them (151-152).
CallSymbolFilters ==
    /\ call.fn = "none"
    /\ LET r == SymbolFilters(call.ok, call.listed, call.obj)
       IN  /\ call' = [call EXCEPT !.fn = "symbol_filters", !.exc = r.exc, !.val = r.val]
           /\ filterCache' = IF r.exc = "-"
                             THEN [filterCache EXCEPT ![Symbols[1]] = Some(FiltersOf(r.val))]
                             ELSE filterCache
    /\ UNCHANGED <<testOnly, enabled, exch, sellFilled, db, orders, pc, idx, sess,
                   pending, cur, out, ticks>>

NextFilters == CallSymbolFilters

SpecFilters == InitFilters /\ [][NextFilters]_vars

-----------------------------------------------------------------------------
(* C26 *)

\* C26: symbol_filters fails with an UnknownSymbol error when the exchange
\* reports no metadata for the symbol: it returns no filter values for it
\* and caches none.
C26_UnknownSymbolFails ==
    (call.fn = "symbol_filters" /\ call.ok /\ ~call.listed) =>
        /\ call.exc = "UnknownSymbol"
        /\ filterCache[Symbols[1]] = None

-----------------------------------------------------------------------------
(* mexc_signed.py: the signed calls on their own *)

\* How the exchange answers a request that reaches it: status 200, another
\* status, or no answer (the httpx call raises).
HttpAnswers == {"200", "other", "none"}

\* 55: the path new_order posts to.
OrderPath(test) == IF test THEN "/api/v3/order/test" ELSE "/api/v3/order"

\* _post_signed and _get_signed: how a signed request ends.  `sent` is
\* whether a request went out to the exchange.
Signed(path, key, sec, http) ==
    IF ~key \/ ~sec
    THEN [exc |-> "MexcTradeError", msg |-> "Missing API key/secret", path |-> path,
          sent |-> FALSE]
    ELSE IF http = "none"
    THEN [exc |-> "httpx", msg |-> "-", path |-> path, sent |-> TRUE]
    ELSE IF http # "200"
    THEN [exc |-> "MexcTradeError", msg |-> "HTTP", path |-> path, sent |-> TRUE]
    ELSE [exc |-> "-", msg |-> "-", path |-> path, sent |-> TRUE]

\* new_order (53-60)
NewOrder(test, key, sec, http) == Signed(OrderPath(test), key, sec, http)

\* query_order (62-66)
QueryOrder(key, sec, http) == Signed("/api/v3/order", key, sec, http)

NoAnswer == [exc |-> "-", msg |-> "-", path |-> "-", sent |-> FALSE]

\* A signed call about to be made: whether MEXC_API_KEY and MEXC_API_SECRET
\* are set (7-8), the mode flag and symbol the caller passes, and the answer
\* the exchange would give.
InitSigned ==
    /\ TraderAtRest
    /\ \E key \in BOOLEAN, sec \in BOOLEAN, test \in BOOLEAN, http \in HttpAnswers,
          sym \in SymSet, side \in {"BUY", "SELL"} :
         call = [fn |-> "none", key |-> key, sec |-> sec, test |-> test, http |-> http,
                 symbol |-> sym, side |-> side, res |-> NoAnswer]

\* new_order runs.
CallNewOrder ==
    /\ call.fn = "none"
    /\ call' = [call EXCEPT !.fn = "new_order",
                            !.res = NewOrder(call.test, call.key, call.sec, call.http)]
    /\ UNCHANGED traderVars

\* query_order runs; it has no test mode.
CallQueryOrder ==
    /\ call.fn = "none"
    /\ ~call.test
    /\ call' = [call EXCEPT !.fn = "query_order",
                            !.res = QueryOrder(call.key, call.sec, call.http)]
    /\ UNCHANGED traderVars

NextSigned == CallNewOrder \/ CallQueryOrder

SpecSigned == InitSigned /\ [][NextSigned]_vars

-----------------------------------------------------------------------------
(* C27 *)

\* The call just made lacked the API key or the secret.
WithoutCredentials ==
    /\ call.fn \in {"new_order", "query_order"}
    /\ ~(call.key /\ call.sec)

\* C27: without a configured API key and secret every live-mode call fails
\* with the missing-credentials error, while a simulation-mode order
\* placement (the test endpoint) is unaffected: it goes out to the exchange
\* and ends as the exchange answers it.
C27_OnlyLiveCallsNeedCredentials ==
    WithoutCredentials =>
        IF call.test
        THEN /\ call.res.sent
             /\ call.res.msg # "Missing API key/secret"
             /\ call.res.exc = "-" <=> call.http = "200"
        ELSE /\ call.res.exc = "MexcTradeError"
             /\ call.res.msg = "Missing API key/secret"
             /\ ~call.res.sent

-----------------------------------------------------------------------------
(* C28 *)

\* The step just taken sent a take-profit SELL to the exchange.
SellSent ==
    /\ out'.step = "exit"
    /\ out'.req # <<>>
    /\ out'.req[1].op = "new_order"
    /\ out'.req[1].side = "SELL"

\* C28: the price p of the take-profit SELL that the tick places for a
\* position with avg_price > 0, after round_price, satisfies
\* p * (1 - taker_fee) >= avg_price * (1 + maker_fee) * (1 + target_pct):
\* the profit realized after both fees meets the configured target.  (Both
\* sides are multiplied by BPS * BPS.)
C28_TakeProfitMeetsTarget ==
    [][SellSent =>
          LET avg == sess[out'.by][out'.sym].avg_price[1]
              p   == out'.req[1].price
          IN  p * (BPS - TAKER_BPS) * BPS >= avg * (BPS + MAKER_BPS) * (BPS + TP_BPS)]_vars

-----------------------------------------------------------------------------
(* The idempotency tokens of order placements *)

\* 180 and 232: client_order_id, f"botbuy_{int(time.time())}" for a BUY and
\* f"botsell_{int(time.time())}" for a SELL, at clock second `now`.
ClientOrderId(side, now) ==
    [prefix |-> IF side = "BUY" THEN "botbuy_" ELSE "botsell_", second |-> now]

\* Where a placement stands in the order in which one pass of trader_tick
\* can make its placements: the symbols in list order (92), and for one
\* symbol the BUY of the entry block before the SELL of the exit block.
PlacementRank(i, side) == 2 * (i - 1) + (IF side = "BUY" THEN 1 ELSE 2)

\* One placement: the symbol and side, the caller and the number of its
\* pass, and the token sent as newClientOrderId (mexc_signed.py 59).
Placement(sym, side, t, n, token) ==
    [symbol |-> sym, side |-> side, by |-> t, pass |-> n, token |-> token]

\* No pass started yet, the clock at second 0.
InitTokens ==
    /\ TraderAtRest
    /\ call = [fn |-> "none", now |-> 0, pass |-> [t \in Ticks |-> 0],
               rank |-> [t \in Ticks |-> 0], sent |-> {}]

\* A caller starts a pass of trader_tick.  trader_loop sleeps 15 seconds
\* between its passes (261), so a pass of the loop starts in a later second
\* than its previous pass ended; a run-now request comes at any time.
StartPass(t) ==
    /\ call.pass[t] < MaxPasses
    /\ LET slept == t = "loop" /\ call.pass[t] > 0
       IN  /\ slept => call.now < MaxClock
           /\ call' = [call EXCEPT !.fn = "trader_tick",
                                   !.pass[t] = @ + 1,
                                   !.rank[t] = 0,
                                   !.now = IF slept THEN @ + 1 ELSE @]
    /\ UNCHANGED traderVars

\* The pass of caller t in flight places an order for symbol number i: the
\* token is built from the side and the clock second.
PlaceOrder(t, i, side) ==
    /\ call.pass[t] > 0
    /\ PlacementRank(i, side) > call.rank[t]
    /\ Cardinality(call.sent) < MaxPlacements
    /\ call' = [call EXCEPT
                  !.fn = "new_order",
                  !.rank[t] = PlacementRank(i, side),
                  !.sent = @ \cup {Placement(Symbols[i], side, t, call.pass[t],
                                             ClientOrderId(side, call.now))}]
    /\ UNCHANGED traderVars

\* The clock reaches the next second.
SecondPasses ==
    /\ call.now < MaxClock
    /\ call' = [call EXCEPT !.now = @ + 1]
    /\ UNCHANGED traderVars

NextTokens ==
    \/ \E t \in Ticks : StartPass(t)
    \/ \E t \in Ticks, i \in 1..Len(Symbols), side \in {"BUY", "SELL"} :
          PlaceOrder(t, i, side)
    \/ SecondPasses

SpecTokens == InitTokens /\ [][NextTokens]_vars

-----------------------------------------------------------------------------
(* C29 *)

\* C29: every order placement carries a caller-generated idempotency token
\* that stands for that one intent: two different placements (different
\* symbols in one tick, or the same symbol in different ticks) never carry
\* the same token.
C29_TokensAreUnique ==
    call.fn \in {"trader_tick", "new_order"} =>
        \A a, b \in call.sent : a # b => a.token # b.token

-----------------------------------------------------------------------------
(* recs.py and main.py: the recommendation loop and its status query *)

\* A snapshot as _compute_once returns it (59-65): when it was computed and
\* the symbols that yielded a result; the others are listed under "errors".
Snapshot(at, ok) == [as_of |-> at, results |-> ok]

\* get_meta (67-68): it reads the module globals.
GetMeta(g) == [last_push_at |-> g.LAST_PUSH_AT, last_count |-> g.LAST_COUNT]

\* recs_status (main.py 82-95): the last-run part of the answer.
RecsStatus(g) ==
    [last_push_at |-> GetMeta(g).last_push_at,
     last_count |-> GetMeta(g).last_count,
     cache_present |-> g.LATEST # None,
     cache_as_of |-> IF g.LATEST # None THEN Some(g.LATEST[1].as_of) ELSE None]

NoStatus ==
    [last_push_at |-> None, last_count |-> 0, cache_present |-> FALSE,
     cache_as_of |-> None]

\* The module globals of recs.py as lines 10-13 set them, and the locals of
\* recs_loop before its first pass.
InitRecs ==
    /\ TraderAtRest
    /\ call = [fn |-> "none", passes |-> 0,
               globals |-> [LATEST |-> None, PREV |-> None, LAST_PUSH_AT |-> None,
                            LAST_COUNT |-> 0],
               locals |-> [LAST_PUSH_AT |-> None, LAST_COUNT |-> 0],
               status |-> NoStatus]

\* One pass of recs_loop (102-107) at clock time call.passes + 1.  The
\* function declares `global LATEST, PREV` (91) and no more, so the
\* assignments of lines 106-107 bind names local to recs_loop.
RecsPass ==
    /\ call.passes < MaxRecsPasses
    /\ \E ok \in SUBSET SymSet :
         LET at   == call.passes + 1
             snap == Snapshot(at, ok)
         IN  call' = [call EXCEPT
                        !.fn = "recs_loop",
                        !.passes = at,
                        !.globals.PREV = call.globals.LATEST,
                        !.globals.LATEST = Some(snap),
                        !.locals.LAST_PUSH_AT = Some(at),
                        !.locals.LAST_COUNT = Cardinality(snap.results)]
    /\ UNCHANGED traderVars

\* GET /recs/status is answered.
CallRecsStatus ==
    /\ call' = [call EXCEPT !.fn = "recs_status", !.status = RecsStatus(call.globals)]
    /\ UNCHANGED traderVars

NextRecs == RecsPass \/ CallRecsStatus

SpecRecs == InitRecs /\ [][NextRecs]_vars

-----------------------------------------------------------------------------
(* C30 *)

\* C30: the status query returns the last-run metadata: once the periodic
\* loop has completed a pass, the reported last-run timestamp is set and
\* the reported last count is the number of results of the latest pass.
C30_StatusReportsLastRun ==
    (call.fn = "recs_status" /\ call.passes > 0) =>
        /\ call.status.last_push_at # None
        /\ call.status.last_count = Cardinality(call.globals.LATEST[1].results)

-----------------------------------------------------------------------------
(* C31 *)

\* The step just taken is a simulated entry whose BUY was accepted.
SimulatedBuyAccepted ==
    /\ testOnly
    /\ out'.step = "entry"
    /\ out'.req # <<>>
    /\ out'.req[1].result = "ok"

\* C31: within one tick the steps of a symbol run in the order reconcile,
\* entry, exit, each on the state the previous one left.  A step is never
\* followed by an earlier block; a cancellation found by the reconcile
\* block is followed by the entry block; in simulation mode an accepted BUY
\* is followed, for the same symbol in the same tick, by the exit block,
\* which sends the take-profit SELL for the quantity bought; in live mode a
\* FILLED reconciliation is followed by the exit block on the filled row.
C31_BlocksRunInOrder ==
    [][LET t == out'.by
           s == out'.sym
       IN  /\ out'.step = "entry" => pc'[t] # "reconcile"
           /\ out'.step = "exit" => pc'[t] \notin {"reconcile", "entry", "exit"}
           /\ (out'.step = "reconcile" /\ IsCancelled(out'.inp.poll)) =>
                 /\ pc'[t] = "entry"
                 /\ idx'[t] = idx[t]
                 /\ sess'[t][s].state = "flat"
           /\ SimulatedBuyAccepted =>
                 /\ pc'[t] = "exit"
                 /\ idx'[t] = idx[t]
                 /\ sess'[t][s].state = "long"
                 /\ sess'[t][s].qty = out'.req[1].qty
           /\ (testOnly /\ out'.step = "exit") =>
                 /\ pc[t] = "exit"
                 /\ out'.req # <<>>
                 /\ out'.req[1].op = "new_order"
                 /\ out'.req[1].side = "SELL"
                 /\ out'.req[1].qty = sess[t][s].qty
           /\ FilledPoll(s) /\ db'[s] # db[s] =>
                 /\ idx'[t] = idx[t]
                 /\ sess'[t][s].state = "long"
                 /\ pc'[t] = IF ExitGuard(sess'[t][s]) THEN "exit"
                             ELSE PcAfter("next", idx[t])]_vars

\* One simulated tick has taken a symbol from flat through long to closing:
\* its accepted BUY and its accepted SELL are both stored.
C31_FlatToClosingInOneTick ==
    /\ testOnly
    /\ ticks = 1
    /\ out.step = "exit"
    /\ db[out.sym].state = "closing"
    /\ Len(orders[out.sym]) = 2
    /\ orders[out.sym][1].side = "BUY"
    /\ orders[out.sym][1].status = "NEW"
    /\ orders[out.sym][2].side = "SELL"
    /\ orders[out.sym][2].status = "NEW"
    /\ orders[out.sym][2].qty = orders[out.sym][1].qty

-----------------------------------------------------------------------------
(* C32 *)

\* The step just taken committed an order record of symbol s that the
\* exchange accepted, of the given side.
NewOrderCommitted(s, side) ==
    /\ Len(orders'[s]) = Len(orders[s]) + 1
    /\ orders'[s][Len(orders'[s])].side = side
    /\ orders'[s][Len(orders'[s])].status = "NEW"

\* C32: an order record and the position mutation it causes are persisted
\* together.  In every commit the stored row leaves flat if and only if
\* the NEW record of a BUY is stored by the same commit, and the row then
\* holds what was bought (simulation) or the id of the order (live); the
\* stored row goes to closing if and only if the NEW record of a SELL is
\* stored by the same commit, and the row then refers to that order.
C32_OrderAndPositionTogether ==
    [][\A s \in SymSet :
          LET rec == orders'[s][Len(orders'[s])]
          IN  /\ (db[s].state = "flat" /\ db'[s].state # "flat")
                    => NewOrderCommitted(s, "BUY")
              /\ NewOrderCommitted(s, "BUY") =>
                    /\ db'[s].state = IF testOnly THEN "long" ELSE "opening"
                    /\ db'[s].avg_price = Some(rec.price)
                    /\ db'[s].qty = IF testOnly THEN rec.qty ELSE 0
                    /\ db'[s].last_buy_order = IF testOnly THEN db[s].last_buy_order
                                               ELSE rec.mexc_order_id
              /\ (db[s].state # "closing" /\ db'[s].state = "closing")
                    => NewOrderCommitted(s, "SELL")
              /\ NewOrderCommitted(s, "SELL") =>
                    /\ db'[s].state = "closing"
                    /\ db'[s].last_sell_order = rec.mexc_order_id]_vars

\* A commit has just stored the NEW record of a SELL together with the
\* row's move to closing.
C32_SellStoredWithClosing ==
    /\ out.step = "exit"
    /\ out.req # <<>>
    /\ out.req[1].result = "ok"
    /\ db[out.sym].state = "closing"
    /\ orders[out.sym][Len(orders[out.sym])].side = "SELL"
    /\ orders[out.sym][Len(orders[out.sym])].status = "NEW"
    /\ db[out.sym].last_sell_order = orders[out.sym][Len(orders[out.sym])].mexc_order_id

-----------------------------------------------------------------------------
(* trader_loop and the broadcast sink *)

\* The websocket clients that can join the room "recs" (main.py 188-202).
Clients == {"c1", "c2"}

\* WSManager.broadcast is not running.
NoIteration == [size |-> 0, orig |-> {}, visited |-> {}, sending |-> None, drop |-> {}]

\* ws.py 21: one step of `for ws in room` over the set `room`.  A set
\* iterator raises RuntimeError when the set's size differs from the size
\* it had when the iteration began; otherwise it yields an element not yet
\* visited, or ends once every element that is still there has been.
IterationSteps(room, it) ==
    IF Cardinality(room) # it.size THEN {"RuntimeError"}
    ELSE (room \ it.visited)
         \cup (IF (it.orig \cap room) \subseteq it.visited THEN {"done"} ELSE {})

\* The loop after an iteration step of the broadcast made from the `except`
\* clause of trader_loop (259-260): the RuntimeError leaves broadcast, the
\* handler and trader_loop; at the end of the iteration the dropped sockets
\* are discarded (26-27) and the loop goes to sleep (261); otherwise
\* send_json to the next socket is awaited (23).
AfterIterationStep(c, it, step) ==
    IF step = "RuntimeError"
    THEN [c EXCEPT !.fn = "broadcast", !.loop = "dead", !.it = NoIteration]
    ELSE IF step = "done"
    THEN [c EXCEPT !.fn = "broadcast", !.loop = "sleep", !.it = NoIteration,
                   !.room = @ \ it.drop, !.reported = @ + 1]
    ELSE [c EXCEPT !.fn = "broadcast", !.loop = "report",
                   !.it = [it EXCEPT !.sending = Some(step),
                                     !.visited = @ \cup {step}]]

\* trader_loop is started (main.py 33) with nobody in the room.
InitLoop ==
    /\ TraderAtRest
    /\ call = [fn |-> "none", loop |-> "tick", passes |-> 0, raised |-> 0,
               reported |-> 0, room |-> {}, it |-> NoIteration]

\* 257-260: a pass of trader_tick ends.  When it returns the loop goes to
\* sleep.  When it raises, the handler calls broadcast, which starts
\* iterating the room and, unless the room is empty, awaits the first
\* send_json.
TickOver ==
    /\ call.loop = "tick"
    /\ \E raises \in BOOLEAN :
         IF ~raises
         THEN call' = [call EXCEPT !.fn = "trader_tick", !.loop = "sleep",
                                   !.passes = @ + 1]
         ELSE LET it == [NoIteration EXCEPT !.size = Cardinality(call.room),
                                            !.orig = call.room]
                  c  == [call EXCEPT !.passes = @ + 1, !.raised = @ + 1]
              IN  \E step \in IterationSteps(call.room, it) :
                    call' = AfterIterationStep(c, it, step)
    /\ UNCHANGED traderVars

\* 22-25 and 21: the awaited send_json returns or raises (the socket is
\* then marked to be dropped), and the iteration takes its next step.
SendOver ==
    /\ call.loop = "report"
    /\ \E sent \in BOOLEAN :
         LET it == [call.it EXCEPT !.sending = None,
                                   !.drop = IF sent THEN @
                                            ELSE @ \cup {call.it.sending[1]}]
         IN  \E step \in IterationSteps(call.room, it) :
               call' = AfterIterationStep(call, it, step)
    /\ UNCHANGED traderVars

\* 261 and 256: the sleep is over and the next pass starts.
WakeUp ==
    /\ call.loop = "sleep"
    /\ call.passes < MaxPasses
    /\ call' = [call EXCEPT !.fn = "sleep", !.loop = "tick"]
    /\ UNCHANGED traderVars

\* A client opens /ws/recs: connect adds its socket to the room (ws.py 11).
\* The handler is another task, which runs whenever the loop's task awaits.
ClientConnects(c) ==
    /\ c \notin call.room
    /\ call' = [call EXCEPT !.fn = "connect", !.room = @ \cup {c}]
    /\ UNCHANGED traderVars

\* A client goes away: its handler calls remove (main.py 199-202, ws.py
\* 13-16).
ClientDisconnects(c) ==
    /\ c \in call.room
    /\ call' = [call EXCEPT !.fn = "remove", !.room = @ \ {c}]
    /\ UNCHANGED traderVars

NextLoop ==
    \/ TickOver
    \/ SendOver
    \/ WakeUp
    \/ \E c \in Clients : ClientConnects(c)
    \/ \E c \in Clients : ClientDisconnects(c)

SpecLoop == InitLoop /\ [][NextLoop]_vars

-----------------------------------------------------------------------------
(* C33 *)

\* C33: the trading loop never stops: every exception a tick raises is
\* caught and reported as a trade_error event, after which the loop sleeps
\* and starts its next tick; nothing is retried within the tick.
C33_LoopNeverStops ==
    call.fn # "none" =>
        /\ call.loop # "dead"
        /\ call.loop \in {"tick", "sleep"} => call.reported = call.raised

-----------------------------------------------------------------------------
(* symbol_filters and its cache, with two callers *)

\* What the exchange reports for the symbol at one time or another.
ReportedObjects ==
    {SymbolObject(<<Filter("PRICE_FILTER", Some(1), None, None, None),
                    Filter("LOT_SIZE", None, Some(2), None, None)>>,
                  None, None, None, None),
     SymbolObject(<<Filter("PRICE_FILTER", Some(1), None, None, None),
                    Filter("LOT_SIZE", None, Some(2), Some(3), None),
                    Filter("MIN_NOTIONAL", None, None, None, Some(12))>>,
                  None, None, None, None)}

\* A caller that is not inside symbol_filters, and what its last call
\* returned: the values, whether the exchange was contacted, and whether
\* the call began after some call had completed.
NoReturn == [val |-> None, contacted |-> FALSE, late |-> FALSE]

\* _SYMBOL_FILTERS empty (84), nobody calling.  The callers are the two
\* executions of trader_tick; `first` is what the first call to complete
\* returned.
InitCache ==
    /\ TraderAtRest
    /\ \E obj \in ReportedObjects :
         call = [fn |-> "none", cache |-> None, exchange |-> obj, calls |-> 0,
                 at |-> [t \in Ticks |-> "idle"],
                 answer |-> [t \in Ticks |-> EmptyObject],
                 late |-> [t \in Ticks |-> FALSE],
                 ret |-> [t \in Ticks |-> NoReturn],
                 first |-> None]

\* 142-147: a caller enters symbol_filters.  With the symbol in the cache
\* the cached values are returned at once; without, the request goes out
\* and the caller awaits the answer, which holds what the exchange reports
\* now.
CallBegins(t) ==
    /\ call.at[t] = "idle"
    /\ call.calls < MaxCalls
    /\ IF call.cache # None
       THEN call' = [call EXCEPT
                       !.fn = "symbol_filters",
                       !.calls = @ + 1,
                       !.ret[t] = [val |-> call.cache, contacted |-> FALSE,
                                   late |-> call.first # None]]
       ELSE call' = [call EXCEPT
                       !.fn = "exchange_info",
                       !.calls = @ + 1,
                       !.at[t] = "fetching",
                       !.answer[t] = call.exchange,
                       !.late[t] = call.first # None]
    /\ UNCHANGED traderVars

\* 147-152: the awaited answer arrives; the parsed filters are stored in
\* the cache, over whatever is there, and returned.  A failed request
\* raises and stores nothing.
CallCompletes(t) ==
    /\ call.at[t] = "fetching"
    /\ \E ok \in BOOLEAN :
         LET r == SymbolFilters(ok, TRUE, call.answer[t])
         IN  IF r.exc # "-"
             THEN call' = [call EXCEPT !.fn = "MexcError", !.at[t] = "idle"]
             ELSE call' = [call EXCEPT
                             !.fn = "symbol_filters",
                             !.at[t] = "idle",
                             !.cache = Some(r.val),
                             !.ret[t] = [val |-> Some(r.val), contacted |-> TRUE,
                                         late |-> call.late[t]],
                             !.first = IF @ = None THEN Some(r.val) ELSE @]
    /\ UNCHANGED traderVars

\* The exchange changes what it reports for the symbol.
ExchangeChanges ==
    /\ \E obj \in ReportedObjects \ {call.exchange} :
         call' = [call EXCEPT !.fn = "exchange", !.exchange = obj]
    /\ UNCHANGED traderVars

NextCache ==
    \/ \E t \in Ticks : CallBegins(t)
    \/ \E t \in Ticks : CallCompletes(t)
    \/ ExchangeChanges

SpecCache == InitCache /\ [][NextCache]_vars

-----------------------------------------------------------------------------
(* C34 *)

\* C34: symbol filters are cached per symbol for the life of the process:
\* once the first call symbol_filters(symbol) has completed, every call
\* made later returns the values that first call returned, without
\* contacting the exchange, whatever the exchange reports by then.
C34_CachedForLife ==
    \A t \in Ticks :
        call.ret[t].late =>
            /\ ~call.ret[t].contacted
            /\ call.ret[t].val = call.first

-----------------------------------------------------------------------------
(* C35 *)

\* C35: in simulation mode no position is ever put into state opening and
\* order status is never polled.  No step of a simulation-mode process
\* stores or loads a row in opening that was not stored in opening before,
\* no step sends query_order, the reconcile block leaves the row as it
\* loaded it, and the row of an accepted BUY is written as long with the
\* quantity bought in the same step.
C35_SimulationNeverOpens ==
    [][testOnly =>
          /\ \A s \in SymSet :
                db'[s].state = "opening" => db[s].state = "opening"
          /\ \A t \in Ticks : \A s \in SymSet :
                sess'[t][s].state = "opening" =>
                    (sess[t][s].state = "opening" \/ db[s].state = "opening")
          /\ out'.req # <<>> => out'.req[1].op # "query_order"
          /\ out'.step = "reconcile" =>
                /\ out'.req = <<>>
                /\ out'.inp.poll = "-"
                /\ sess'[out'.by][out'.sym] = sess[out'.by][out'.sym]
          /\ SimulatedBuyAccepted =>
                /\ sess'[out'.by][out'.sym].state = "long"
                /\ db'[out'.sym].state = "long"
                /\ db'[out'.sym].qty = out'.req[1].qty
                /\ out'.req[1].test]_vars

\* A simulated BUY has been stored as long while the other symbol's row,
\* stored in opening by an earlier live run, has been passed by the same
\* execution without a poll.
C35_BoughtLongBesideOpening ==
    /\ testOnly
    /\ out.step = "entry"
    /\ out.req # <<>>
    /\ out.req[1].result = "ok"
    /\ db[out.sym].state = "long"
    /\ \E s \in SymSet \ {out.sym} :
          /\ db[s].state = "opening"
          /\ db[s].last_buy_order # None
          /\ orders[s] = <<>>

-----------------------------------------------------------------------------
(* The agent's trading tools (agent_loop.py) *)

\* The two tools, as run_agent calls them by name (144-147): the names are
\* bound to the definitions at 231 and 267, which replace those at 68-75
\* when the module is loaded.
Tools == {"mexc_buy", "mexc_sell"}

\* 238-240, 273-275: the tool reads TRADE_TEST_ONLY and refuses when it is
\* not "true".
LiveRefusedNever(test) == FALSE

LiveRefused(test) == ~test

\* A call of a tool by the agent: its arguments (price and budget may be
\* absent), the symbol's filters and whether they are cached, the requests
\* sent so far, and how the call ended ("-" while it runs).
ToolCall(tool, test, price, budget, qty, f, cached) ==
    [fn |-> "none", tool |-> tool, test |-> test, price |-> price,
     budget |-> budget, qty |-> qty, f |-> f, cached |-> cached,
     at |-> "mode", sent |-> <<>>, ret |-> "-"]

ToolFilters == {Filters(0, 1, 0, 5), Filters(0, 2, 3, 12)}

InitTools ==
    /\ TraderAtRest
    /\ \E tool \in Tools, test \in BOOLEAN, f \in ToolFilters, cached \in BOOLEAN,
          price \in {None} \cup {Some(x) : x \in Closes},
          budget \in {None, Some(0), Some(MaxBudget)},
          qty \in {0, 1, 3} :
         /\ tool = "mexc_sell" => budget = None
         /\ tool = "mexc_buy" => qty = 0
         /\ call = ToolCall(tool, test, price, budget, qty, f, cached)

ToolReturns(ret) ==
    call' = [call EXCEPT !.fn = call.tool, !.at = "done", !.ret = ret]

\* 238-243, 273-278: the mode is read; a live process gets the error dict
\* back at once, and so does a SELL of no quantity.
ToolReadsMode ==
    /\ call.at = "mode"
    /\ IF LiveRefused(call.test) THEN ToolReturns("live_disabled")
       ELSE IF call.tool = "mexc_sell" /\ call.qty <= 0
            THEN ToolReturns("qty_not_positive")
       ELSE call' = [call EXCEPT
                       !.fn = call.tool,
                       !.at = "price",
                       !.budget = IF call.tool = "mexc_buy" /\ @ = None
                                  THEN Some(MAX_USDT) ELSE @]
    /\ UNCHANGED traderVars

\* 246-250, 280-283: without a price the last close is fetched (klines);
\* round_price fetches the symbol's filters when they are not cached.  Either
\* request may fail, and the error leaves the tool.
ToolPrices ==
    /\ call.at = "price"
    /\ \E close \in Closes, kl \in BOOLEAN, fl \in BOOLEAN :
         LET s1 == IF call.price = None THEN <<[op |-> "klines", test |-> FALSE]>>
                   ELSE <<>>
             s2 == IF call.cached THEN <<>>
                   ELSE <<[op |-> "exchange_info", test |-> FALSE]>>
             raw == IF call.price = None THEN close ELSE call.price[1]
         IN  IF call.price = None /\ ~kl
             THEN call' = [call EXCEPT !.fn = "klines", !.at = "done",
                                       !.sent = s1, !.ret = "MexcError"]
             ELSE IF ~call.cached /\ ~fl
             THEN call' = [call EXCEPT !.fn = "exchange_info", !.at = "done",
                                       !.sent = s1 \o s2, !.ret = "MexcError"]
             ELSE call' = [call EXCEPT !.fn = "round_price", !.at = "size",
                                       !.sent = s1 \o s2, !.cached = TRUE,
                                       !.price = Some(RoundPrice(call.f, raw))]
    /\ UNCHANGED traderVars

\* 251-253, 286-288: the quantity is sized (BUY) or rounded (SELL); a
\* quantity of 0 ends the call with an error dict.
ToolSizes ==
    /\ call.at = "size"
    /\ LET qty == IF call.tool = "mexc_buy"
                  THEN SizeOrder(call.f, call.price[1], call.budget[1])
                  ELSE RoundQty(call.f, call.qty)
       IN  IF qty <= 0
           THEN call' = [call EXCEPT !.fn = call.tool, !.at = "done", !.qty = qty,
                                     !.ret = IF call.tool = "mexc_buy"
                                             THEN "budget_too_small"
                                             ELSE "qty_below_min"]
           ELSE call' = [call EXCEPT !.fn = call.tool, !.at = "order", !.qty = qty]
    /\ UNCHANGED traderVars

\* 255-264, 290-299: the arguments of signed_new_order are evaluated before
\* the call; client_order_id reads time.time(), and the module imports no
\* `time` (line 3): NameError, and no request is sent.
ToolOrders ==
    /\ call.at = "order"
    /\ call' = [call EXCEPT !.fn = "signed_new_order", !.at = "done",
                            !.ret = "NameError"]
    /\ UNCHANGED traderVars

NextTools == ToolReadsMode \/ ToolPrices \/ ToolSizes \/ ToolOrders

SpecTools == InitTools /\ [][NextTools]_vars

-----------------------------------------------------------------------------
(* C36 *)

-----------------------------------------------------------------------------
(* C37 *)

-----------------------------------------------------------------------------
(* C38 *)

\* Execution t takes a step of the loop body on symbol s.
StepsOn(t, s) ==
    /\ pc[t] \in {"tradable", "reconcile", "entry", "exit"}
    /\ Symbols[idx[t]] = s
    /\ (pc'[t] # pc[t] \/ idx'[t] # idx[t])

\* C38: for a symbol whose position the tick loaded in state closing,
\* trader_tick, in both modes, places no order, writes no order record and
\* leaves every field of the position row as it is: none of its steps on
\* the symbol sends a request, adds to the orders table or changes the
\* stored row or the loaded object, and none of its blocks (reconcile,
\* entry, exit) is entered for the symbol, so that no second take-profit
\* SELL is placed for the holding.
C38_ClosingIsLeftAlone ==
    [][\A t \in Ticks : \A s \in SymSet :
          (StepsOn(t, s) /\ sess[t][s].state = "closing") =>
              /\ pc[t] = "tradable"
              /\ pc'[t] \notin {"reconcile", "entry", "exit"}
              /\ out'.by = t
              /\ out'.req = <<>>
              /\ orders'[s] = orders[s]
              /\ db'[s] = db[s]
              /\ sess'[t][s] \in {sess[t][s], NoRow}]_vars

\* An execution has checked a tradable symbol whose stored row is in
\* closing behind a take-profit SELL, and gone on to the next symbol.
C38_PassedOverClosing ==
    /\ ticks = 2
    /\ out.step = "tradable"
    /\ out.inp.tradable = "yes"
    /\ pc[out.by] \in {"tradable", "returned"}
    /\ sess[out.by][out.sym] = NoRow
    /\ db[out.sym].state = "closing"
    /\ db[out.sym].qty > 0
    /\ Len(orders[out.sym]) >= 1
    /\ orders[out.sym][Len(orders[out.sym])].side = "SELL"
    /\ orders[out.sym][Len(orders[out.sym])].status = "NEW"
    /\ Cardinality({i \in DOMAIN orders[out.sym] :
                       /\ orders[out.sym][i].side = "SELL"
                       /\ orders[out.sym][i].status = "NEW"}) = 1

-----------------------------------------------------------------------------
(* size_order with quotients that do not come out even *)

\* Decimal carries a quotient to a fixed number of digits, rounding half to
\* even.  Here a quantity is carried to two decimals, as a count of
\* hundredths; prices, budgets and filter values are whole numbers, so a
\* product quantity * price is exact.  The prices drawn are far below
\* Precision, so a rounded quotient never lands on a multiple of the step
\* that the exact quotient misses.
Precision == 100

\* n / d, rounded half to even.
DivHalfEven(n, d) ==
    LET q == n \div d
        r == n % d
    IN  IF 2 * r < d THEN q
        ELSE IF 2 * r > d THEN q + 1
        ELSE IF q % 2 = 0 THEN q ELSE q + 1

\* 214-218: q after the floor to the step and the raise to min_qty, in
\* hundredths.
SizedQuantity(f, price, budget) ==
    LET raw == DivHalfEven(budget * Precision, price)
        q0  == QuantizeDown(raw, f.stepSize * Precision)
    IN  IF f.minQty # 0 /\ q0 < f.minQty * Precision THEN f.minQty * Precision
        ELSE q0

\* 220-221: the test that enters the recomputation.
NotionalBelow(f, price, budget) ==
    /\ f.minNotional # 0
    /\ SizedQuantity(f, price, budget) * price < f.minNotional * Precision

\* size_order (207-227): the quantity returned, in hundredths, and the
\* return that gave it: "early" (213), "zero" (224), "recomputed" (225, 226)
\* or "sized" (226 without the recomputation).
SizeOrderTraced(f, price, budget) ==
    IF price <= 0 \/ budget <= 0 THEN [q |-> 0, by |-> "early"]
    ELSE LET q    == SizedQuantity(f, price, budget)
             need == QuantizeUp(DivHalfEven(f.minNotional * Precision, price),
                                f.stepSize * Precision)
         IN  IF NotionalBelow(f, price, budget)
             THEN IF need * price > budget * Precision
                  THEN [q |-> 0, by |-> "zero"]
                  ELSE [q |-> IF need > 0 THEN need ELSE 0, by |-> "recomputed"]
             ELSE [q |-> IF q > 0 THEN q ELSE 0, by |-> "sized"]

\* Filter sets for these calls: with and without a step, and with a
\* min_notional that a budget can equal.
TracedFilters ==
    {Filters(0, step, minq, minn) :
        step \in {0, 1, 2}, minq \in {0, 1, 3}, minn \in {0, 5, 7, 10}}

InitTraced ==
    /\ TraderAtRest
    /\ \E f \in TracedFilters, price \in SizingPrices, budget \in 0..MaxBudget :
         call = [fn |-> "none", f |-> f, price |-> price, budget |-> budget,
                 res |-> [q |-> 0, by |-> "-"]]

\* size_order runs and returns.
CallSizeOrderTraced ==
    /\ call.fn = "none"
    /\ call' = [call EXCEPT !.fn = "size_order",
                            !.res = SizeOrderTraced(call.f, call.price, call.budget)]
    /\ UNCHANGED traderVars

NextTraced == CallSizeOrderTraced

SpecTraced == InitTraced /\ [][NextTraced]_vars

-----------------------------------------------------------------------------
(* C39 *)

\* C39 as stated: size_order returns either 0 or exactly
\* max(floor_to_step(budget / price), min_qty); whenever that quantity's
\* notional is below min_notional the result is 0, and the recomputation
\* never returns a positive quantity.
C39_RecomputeNeverPositive ==
    (call.fn = "size_order" /\ call.price > 0 /\ call.budget > 0) =>
        /\ call.res.q \in {0, SizedQuantity(call.f, call.price, call.budget)}
        /\ NotionalBelow(call.f, call.price, call.budget) => call.res.q = 0
        /\ ~(call.res.by = "recomputed" /\ call.res.q > 0)

\* C39, amended: size_order returns either 0 or exactly
\* max(floor_to_step(budget / price), min_qty).  With a step size, whenever
\* that quantity's notional is below min_notional the result is 0.  Without
\* a step size the same holds unless min_notional equals the budget: then
\* the quotient budget / price, when it is rounded down, has a notional just
\* below min_notional, the recomputation finds the same quotient, which the
\* budget affords, and returns it.
C39_RecomputeOnlyRepeatsQuotient ==
    (call.fn = "size_order" /\ call.price > 0 /\ call.budget > 0) =>
        /\ call.res.q \in {0, SizedQuantity(call.f, call.price, call.budget)}
        /\ (/\ NotionalBelow(call.f, call.price, call.budget)
            /\ (call.f.stepSize > 0 \/ call.f.minNotional # call.budget))
           => call.res.q = 0
        /\ (call.res.by = "recomputed" /\ call.res.q > 0) =>
              /\ call.f.stepSize = 0
              /\ call.f.minNotional = call.budget
              /\ call.res.q = SizedQuantity(call.f, call.price, call.budget)
              /\ call.res.q = DivHalfEven(call.budget * Precision, call.price)

\* A call with a step size whose sized quantity was positive but short of
\* min_notional has returned 0 from the recomputation.
C39_ShortOfNotionalSizedToZero ==
    /\ call.fn = "size_order"
    /\ call.f.stepSize > 0
    /\ call.res.by = "zero"
    /\ call.res.q = 0
    /\ SizedQuantity(call.f, call.price, call.budget) > 0
    /\ NotionalBelow(call.f, call.price, call.budget)

-----------------------------------------------------------------------------
(* run_agent (agent_loop.py 94-182) *)

\* RunStatus (db.py 55-60)
RunStatus == {"queued", "running", "success", "error", "stopped"}

\* What the model answers at one step (117, 128, 159): a tool request, a
\* final answer, or a JSON object that is neither.
Replies == {"tool", "final", "other"}

\* ws_broadcast(run.id, ...) delivers to the run's room, or the iteration
\* over the room raises (ws.py 19-23, the room changing during a send).
BroadcastOutcomes == {"ok", "RuntimeError"}

\* run_agent has not begun.  The run row was stored as queued (main.py
\* 124-126), or no row has this id.  `got` is the way out of the loop that
\* the run met first, `raised` whether an exception reached the handler of
\* line 175, `ended` how run_agent was left, `messages` the length of the
\* conversation sent to the model (108-111, 154-156, 168).
InitAgent ==
    /\ TraderAtRest
    /\ \E exists \in BOOLEAN :
         call = [fn |-> "none", exists |-> exists, at |-> "start", step |-> 0,
                 calls |-> 0, messages |-> 0, status |-> "queued",
                 reply |-> "-", got |-> "-",
                 raised |-> FALSE, ended |-> "-"]

\* 95-111: the row is loaded; without one run_agent returns.  The status
\* goes to running and is committed; a failure of the first broadcast is
\* swallowed (103-106).
AgentStarts ==
    /\ call.at = "start"
    /\ \E b \in BroadcastOutcomes :
         IF ~call.exists
         THEN call' = [call EXCEPT !.fn = "run_agent", !.at = "done",
                                   !.ended = "returned"]
         ELSE call' = [call EXCEPT !.fn = "run_agent", !.status = "running",
                                   !.messages = 2,
                                   !.at = IF MAX_STEPS >= 1 THEN "call" ELSE "exhausted",
                                   !.step = IF MAX_STEPS >= 1 THEN 1 ELSE 0]
    /\ UNCHANGED traderVars

\* 114-117: the model call of the step: a reply, the 25 s timeout, or an
\* exception of call_ollama.
ModelCall ==
    /\ call.at = "call"
    /\ \E o \in Replies \cup {"timeout", "raise"} :
         call' = [call EXCEPT
                    !.fn = "call_ollama",
                    !.calls = @ + 1,
                    !.reply = IF o \in Replies THEN o ELSE "-",
                    !.at = IF o = "timeout" THEN "timeout"
                           ELSE IF o = "raise" THEN "handler"
                           ELSE "thought",
                    !.got = IF o = "timeout" THEN "timeout"
                            ELSE IF o = "raise" THEN "exception" ELSE @]
    /\ UNCHANGED traderVars

\* 118-123: the timeout is recorded and broadcast, the status set to error
\* and committed, and run_agent returns.
TimedOut ==
    /\ call.at = "timeout"
    /\ \E b \in BroadcastOutcomes :
         IF b = "ok"
         THEN call' = [call EXCEPT !.fn = "run_agent", !.status = "error",
                                   !.at = "done", !.ended = "returned"]
         ELSE call' = [call EXCEPT !.fn = "ws_broadcast", !.at = "handler"]
    /\ UNCHANGED traderVars

\* The step after this one, or the end of the loop (114).
AfterStep(step) ==
    IF step < MAX_STEPS THEN [at |-> "call", step |-> step + 1]
    ELSE [at |-> "exhausted", step |-> step]

\* 125-128, 159, 167-168: the reply is recorded and broadcast, and its type
\* read; a reply that is neither a tool request nor final is answered with
\* a reminder and the loop goes on.
Thought ==
    /\ call.at = "thought"
    /\ \E b \in BroadcastOutcomes :
         IF b # "ok"
         THEN call' = [call EXCEPT !.fn = "ws_broadcast", !.at = "handler",
                                   !.got = "exception"]
         ELSE IF call.reply = "tool"
         THEN call' = [call EXCEPT !.fn = "run_agent", !.at = "tool"]
         ELSE IF call.reply = "final"
         THEN call' = [call EXCEPT !.fn = "run_agent", !.at = "final",
                                   !.got = "final"]
         ELSE call' = [call EXCEPT !.fn = "run_agent",
                                   !.messages = @ + 1,
                                   !.at = AfterStep(call.step).at,
                                   !.step = AfterStep(call.step).step]
    /\ UNCHANGED traderVars

\* 129-157: the tool runs, its result is recorded and broadcast, and the
\* loop goes on; an exception of the tool or of the broadcast leaves the
\* loop.
ToolRuns ==
    /\ call.at = "tool"
    /\ \E ok \in BOOLEAN, b \in BroadcastOutcomes :
         IF ~ok \/ b # "ok"
         THEN call' = [call EXCEPT !.fn = IF ok THEN "ws_broadcast" ELSE "tool",
                                   !.at = "handler", !.got = "exception"]
         ELSE call' = [call EXCEPT !.fn = "tool",
                                   !.messages = @ + 3,
                                   !.at = AfterStep(call.step).at,
                                   !.step = AfterStep(call.step).step]
    /\ UNCHANGED traderVars

\* 159-165: the status is set to success and committed with the answer;
\* then the final event is recorded and broadcast, inside the try, and
\* run_agent returns.
FinalReply ==
    /\ call.at = "final"
    /\ \E b \in BroadcastOutcomes :
         IF b = "ok"
         THEN call' = [call EXCEPT !.fn = "run_agent", !.status = "success",
                                   !.at = "done", !.ended = "returned"]
         ELSE call' = [call EXCEPT !.fn = "ws_broadcast", !.status = "success",
                                   !.at = "handler"]
    /\ UNCHANGED traderVars

\* 170-173: the loop ran out of steps: the status is set to stopped and
\* committed; then the event is recorded and broadcast, inside the try.
StepsExhausted ==
    /\ call.at = "exhausted"
    /\ \E b \in BroadcastOutcomes :
         IF b = "ok"
         THEN call' = [call EXCEPT !.fn = "run_agent", !.status = "stopped",
                                   !.got = "exhausted",
                                   !.at = "done", !.ended = "returned"]
         ELSE call' = [call EXCEPT !.fn = "ws_broadcast", !.status = "stopped",
                                   !.got = "exhausted", !.at = "handler"]
    /\ UNCHANGED traderVars

\* 175-182: the handler of the try: the status is set to error and
\* committed, the error recorded, a failure of the broadcast swallowed, and
\* run_agent returns.
ExceptionHandler ==
    /\ call.at = "handler"
    /\ \E b \in BroadcastOutcomes :
         call' = [call EXCEPT !.fn = "run_agent", !.status = "error",
                              !.raised = TRUE, !.at = "done",
                              !.ended = "returned"]
    /\ UNCHANGED traderVars

NextAgent ==
    \/ AgentStarts
    \/ ModelCall
    \/ TimedOut
    \/ Thought
    \/ ToolRuns
    \/ FinalReply
    \/ StepsExhausted
    \/ ExceptionHandler

SpecAgent == InitAgent /\ [][NextAgent]_vars

-----------------------------------------------------------------------------
(* C40 *)

====
